---- MODULE Spec2Model ----
(***************************************************************************)
(* Para Sekreterim: the request handlers of accounts/views.py over the     *)
(* tables of accounts/models.py.                                           *)
(*                                                                         *)
(* Money is counted in whole kurus (a DecimalField with two decimal places *)
(* scaled by 100), so Decimal arithmetic is exact integer arithmetic.      *)
(* Names are written without Turkish diacritics.                           *)
(* A table is the set of its rows; a new row gets the id after the largest *)
(* id stored.                                                              *)
(***************************************************************************)
EXTENDS Integers, Sequences, FiniteSets, TLC

VARIABLES
    today,            \* timezone.now().date()
    total_amount,     \* CustomUser.total_amount, per user
    categories,       \* Category rows
    transactions,     \* Transaction rows
    saving_goals,     \* SavingGoal rows
    purchase_goals,   \* PurchaseGoal rows
    spending_limits,  \* SpendingLimit rows
    notify_count,     \* per purchase goal, how many notifications were emitted
    requests,         \* overlapping requests: each one's copy of request.user and its position
    call,             \* the last call of a pure function: its name, arguments and result
    memory_cache,     \* cache_decorators._memory_cache: the entries of every wrapped function
    password,         \* CustomUser.password, per user: the raw password and the salt of its hash
    reset_tokens      \* PasswordResetToken rows

vars == <<today, total_amount, categories, transactions, saving_goals,
          purchase_goals, spending_limits, notify_count, requests, call,
          memory_cache, password, reset_tokens>>

----------------------------------------------------------------------------
(* Bounds of the model *)

MaxTx == 2
MaxGoals == 1
MaxLimits == 1
MaxCategoryId == 2
MaxRequests == 2

----------------------------------------------------------------------------
(* Values *)

Users == {"u1", "u2"}
(* An empty choice of a form (category left blank); row ids start at 1. *)
None == 0

(* no pure function has been called *)
NoCall == [fn |-> "none"]
Range(s) == {s[i] : i \in DOMAIN s}

SetMax(S) == CHOOSE x \in S : \A y \in S : y <= x
SetMin(S) == CHOOSE x \in S : \A y \in S : x <= y

NextId(rows) == IF rows = {} THEN 1 ELSE SetMax({r.id : r \in rows}) + 1

RECURSIVE SumAmount(_)
SumAmount(rows) ==
    IF rows = {} THEN 0
    ELSE LET r == CHOOSE x \in rows : TRUE
         IN  r.amount + SumAmount(rows \ {r})

(* The names a request can type, and the names financial_info_view creates: *)
(* each with its lower-case form, which is what name__iexact compares.      *)
NameTable ==
    << <<"Maas", "maas">>, <<"Ek Gelir", "ek gelir">>,
       <<"Yatirim Getirisi", "yatirim getirisi">>, <<"Kira", "kira">>,
       <<"Market", "market">>, <<"Faturalar", "faturalar">>,
       <<"Ulasim", "ulasim">>, <<"Eglence", "eglence">>,
       <<"Saglik", "saglik">>, <<"Giyim", "giyim">>, <<"Egitim", "egitim">>,
       <<"Diger", "diger">>, <<"market", "market">>, <<"MARKET", "market">>,
       <<"maas", "maas">>, <<"Prim", "prim">> >>

LowerOf == [name \in {p[1] : p \in Range(NameTable)} |->
               (CHOOSE p \in Range(NameTable) : p[1] = name)[2]]

(* str.lower(), as the database's case-insensitive match applies it *)
Lower(name) == LowerOf[name]

kategoriler ==
    << [name |-> "Maas", type |-> "gelir"],
       [name |-> "Ek Gelir", type |-> "gelir"],
       [name |-> "Yatirim Getirisi", type |-> "gelir"],
       [name |-> "Kira", type |-> "gider"],
       [name |-> "Market", type |-> "gider"],
       [name |-> "Faturalar", type |-> "gider"],
       [name |-> "Ulasim", type |-> "gider"],
       [name |-> "Eglence", type |-> "gider"],
       [name |-> "Saglik", type |-> "gider"],
       [name |-> "Giyim", type |-> "gider"],
       [name |-> "Egitim", type |-> "gider"],
       [name |-> "Diger", type |-> "gider"] >>

----------------------------------------------------------------------------
(* Dates: datetime.date as [year, month, day] *)

IsLeap(y) == (y % 4 = 0) /\ ((y % 100 # 0) \/ (y % 400 = 0))

DaysBeforeMonth(y, m) ==
    LET cum == <<0, 31, 59, 90, 120, 151, 181, 212, 243, 273, 304, 334>>
    IN  cum[m] + (IF m > 2 /\ IsLeap(y) THEN 1 ELSE 0)

(* date.toordinal(): 1 for 0001-01-01 *)
ToOrdinal(d) ==
    LET y == d.year - 1
    IN  365 * y + (y \div 4) - (y \div 100) + (y \div 400)
        + DaysBeforeMonth(d.year, d.month) + d.day

(* date.weekday(): Monday is 0 *)
Weekday(d) == (ToOrdinal(d) + 6) % 7

Date(y, m, d) == [year |-> y, month |-> m, day |-> d]

----------------------------------------------------------------------------
(* The category table *)

CategoryIds == {c.id : c \in categories}
GetCategory(id) == CHOOSE c \in categories : c.id = id
CategoryType(id) == GetCategory(id).type

(* Category.objects.filter(name__iexact=name, type=type) *)
IExactMatches(cats, name, type) ==
    {c \in cats : Lower(c.name) = Lower(name) /\ c.type = type}

(* Category.objects.create(name=..., type=..., icon='tag') *)
CreateCategory(cats, name, type) ==
    cats \cup {[id |-> NextId(cats), name |-> name, type |-> type, icon |-> "tag"]}

(* Category.objects.get_or_create(name=..., type=..., icon='tag'): an exact match *)
GetOrCreateCategory(cats, name, type) ==
    IF \E c \in cats : c.name = name /\ c.type = type /\ c.icon = "tag"
    THEN cats
    ELSE CreateCategory(cats, name, type)

----------------------------------------------------------------------------
(* Transactions: add_income_view, add_expense_view, edit_transaction_view,  *)
(* delete_transaction_view                                                  *)

(* TransactionForm.is_valid(): the category is optional and, when chosen,   *)
(* must be in Category.objects.filter(type=transaction_type); the amount is *)
(* any decimal.                                                             *)
TransactionFormValid(type, choice) ==
    choice = None \/ (choice \in CategoryIds /\ CategoryType(choice) = type)

(* "Yeni kategori kontrolu": the category a valid form ends up with.        *)
ResolveCategory(type, choice, new_name) ==
    IF new_name # ""
    THEN LET existing == IExactMatches(categories, new_name, type)
         IN  IF existing # {}
             THEN [ok |-> TRUE, cats |-> categories,
                   category |-> SetMin({c.id : c \in existing})]
             ELSE [ok |-> TRUE, cats |-> CreateCategory(categories, new_name, type),
                   category |-> NextId(categories)]
    ELSE IF choice # None
         THEN [ok |-> TRUE, cats |-> categories, category |-> choice]
         ELSE [ok |-> FALSE, cats |-> categories, category |-> None]

Unchanged_tables ==
    UNCHANGED <<total_amount, categories, transactions, saving_goals,
                purchase_goals, spending_limits>>

Unchanged_rest == UNCHANGED <<today, notify_count, requests, call, memory_cache, password, reset_tokens>>

(* request.user.total_amount += transaction.amount *)
IncomeAdded(total, amount) == total + amount

(* request.user.total_amount -= transaction.amount *)
ExpenseAdded(total, amount) == total - amount

add_income_view(u, choice, new_name, amount, date) ==
    /\ Unchanged_rest
    /\ IF ~TransactionFormValid("gelir", choice)
       THEN Unchanged_tables
       ELSE LET r == ResolveCategory("gelir", choice, new_name)
            IN  IF ~r.ok
                THEN Unchanged_tables
                ELSE /\ categories' = r.cats
                     /\ transactions' = transactions \cup
                            {[id |-> NextId(transactions), user |-> u,
                              category |-> r.category, amount |-> amount,
                              date |-> date]}
                     /\ total_amount' =
                            [total_amount EXCEPT ![u] = IncomeAdded(@, amount)]
                     /\ UNCHANGED <<saving_goals, purchase_goals, spending_limits>>

add_expense_view(u, choice, new_name, amount, date) ==
    /\ Unchanged_rest
    /\ IF ~TransactionFormValid("gider", choice)
       THEN Unchanged_tables
       ELSE LET r == ResolveCategory("gider", choice, new_name)
            IN  IF ~r.ok
                THEN Unchanged_tables
                ELSE /\ categories' = r.cats
                     /\ transactions' = transactions \cup
                            {[id |-> NextId(transactions), user |-> u,
                              category |-> r.category, amount |-> amount,
                              date |-> date]}
                     /\ total_amount' =
                            [total_amount EXCEPT ![u] = ExpenseAdded(@, amount)]
                     /\ UNCHANGED <<saving_goals, purchase_goals, spending_limits>>

(* The difference added whatever the type of the transaction *)
EditedTotal_AlwaysAdded(total, type, old_amount, amount) ==
    total + (amount - old_amount)

(* amount_diff = transaction.amount - old_amount, added for 'gelir' and     *)
(* subtracted otherwise                                                     *)
EditedTotal(total, type, old_amount, amount) ==
    IF type = "gelir" THEN total + (amount - old_amount)
                      ELSE total - (amount - old_amount)

edit_transaction_rows(u, transaction_id, choice, new_name, amount, date) ==
    /\ IF ~\E t \in transactions : t.id = transaction_id /\ t.user = u
       THEN Unchanged_tables
       ELSE LET t == CHOOSE x \in transactions : x.id = transaction_id
                transaction_type == CategoryType(t.category)
                old_amount == t.amount
            IN  IF ~TransactionFormValid(transaction_type, choice)
                THEN Unchanged_tables
                ELSE LET r == ResolveCategory(transaction_type, choice, new_name)
                     IN  IF ~r.ok
                         THEN Unchanged_tables
                         ELSE /\ categories' = r.cats
                              /\ transactions' = (transactions \ {t}) \cup
                                     {[t EXCEPT !.category = r.category,
                                                !.amount = amount,
                                                !.date = date]}
                              /\ total_amount' = [total_amount EXCEPT ![u] =
                                     EditedTotal(@, transaction_type, old_amount, amount)]
                              /\ UNCHANGED <<saving_goals, purchase_goals,
                                             spending_limits>>

edit_transaction_view(u, transaction_id, choice, new_name, amount, date) ==
    /\ Unchanged_rest
    /\ edit_transaction_rows(u, transaction_id, choice, new_name, amount, date)

(* 'gelir': total_amount -= amount; otherwise total_amount += amount *)
DeletedTotal(total, type, amount) ==
    IF type = "gelir" THEN total - amount ELSE total + amount

delete_transaction_rows_AnyOwner(u, transaction_id) ==
    /\ IF ~\E t \in transactions : t.id = transaction_id
       THEN Unchanged_tables
       ELSE LET t == CHOOSE x \in transactions : x.id = transaction_id
            IN  /\ transactions' = transactions \ {t}
                /\ total_amount' = [total_amount EXCEPT ![u] =
                       DeletedTotal(@, CategoryType(t.category), t.amount)]
                /\ UNCHANGED <<categories, saving_goals, purchase_goals,
                               spending_limits>>

delete_transaction_rows(u, transaction_id) ==
    /\ IF ~\E t \in transactions : t.id = transaction_id /\ t.user = u
       THEN Unchanged_tables
       ELSE LET t == CHOOSE x \in transactions : x.id = transaction_id
            IN  /\ transactions' = transactions \ {t}
                /\ total_amount' = [total_amount EXCEPT ![u] =
                       DeletedTotal(@, CategoryType(t.category), t.amount)]
                /\ UNCHANGED <<categories, saving_goals, purchase_goals,
                               spending_limits>>

delete_transaction_view(u, transaction_id) ==
    /\ Unchanged_rest
    /\ delete_transaction_rows(u, transaction_id)

----------------------------------------------------------------------------
(* Saving goals: add_saving_goal_view, add_money_view                       *)

add_saving_goal_view(u, target_amount) ==
    /\ Unchanged_rest
    /\ saving_goals' = saving_goals \cup
           {[id |-> NextId(saving_goals), user |-> u,
             target_amount |-> target_amount, current_amount |-> 0]}
    /\ UNCHANGED <<total_amount, categories, transactions, purchase_goals,
                   spending_limits>>

(* goal.current_amount += amount, with current_amount a Decimal read from   *)
(* the row and amount = float(request.POST['amount']): Decimal and float do *)
(* not add, the statement raises TypeError.                                 *)
DecimalPlusFloatRaises == TRUE

(* numeric: float(amount) succeeds. The checks run in the order of the code. *)
(* The rows the request writes; add_money_view below is the whole request.  *)
add_money_rows(u, goal_id, numeric, amount) ==
    /\ IF ~numeric \/ amount <= 0 \/ amount > total_amount[u]
          \/ ~\E g \in saving_goals : g.id = goal_id /\ g.user = u
       THEN Unchanged_tables
       ELSE IF DecimalPlusFloatRaises
            THEN Unchanged_tables
            ELSE LET g == CHOOSE x \in saving_goals : x.id = goal_id
                 IN  /\ saving_goals' = (saving_goals \ {g}) \cup
                            {[g EXCEPT !.current_amount = @ + amount]}
                     /\ total_amount' = [total_amount EXCEPT ![u] = @ - amount]
                     /\ UNCHANGED <<categories, transactions, purchase_goals,
                                    spending_limits>>

add_money_view(u, goal_id, numeric, amount) ==
    /\ Unchanged_rest
    /\ add_money_rows(u, goal_id, numeric, amount)

----------------------------------------------------------------------------
(* financial_info_view and settings_view                                    *)

RECURSIVE CreateDefaults(_, _)
CreateDefaults(cats, i) ==
    IF i > Len(kategoriler) THEN cats
    ELSE CreateDefaults(
             GetOrCreateCategory(cats, kategoriler[i].name, kategoriler[i].type),
             i + 1)

(* FinancialInfoForm: total_amount has min_value=0 *)
financial_info_view(u, amount) ==
    /\ Unchanged_rest
    /\ IF amount < 0
       THEN Unchanged_tables
       ELSE /\ total_amount' = [total_amount EXCEPT ![u] = amount]
            /\ categories' = CreateDefaults(categories, 1)
            /\ UNCHANGED <<transactions, saving_goals, purchase_goals,
                           spending_limits>>

settings_add_category(category_name, category_type) ==
    /\ Unchanged_rest
    /\ UNCHANGED <<total_amount, transactions, saving_goals, purchase_goals,
                   spending_limits>>
    /\ IF category_name = ""
       THEN UNCHANGED categories
       ELSE IF IExactMatches(categories, category_name, category_type) # {}
            THEN UNCHANGED categories
            ELSE /\ categories' = CreateCategory(categories, category_name, category_type)

settings_edit_category(category_id, category_name) ==
    /\ Unchanged_rest
    /\ UNCHANGED <<total_amount, transactions, saving_goals, purchase_goals,
                   spending_limits>>
    /\ IF category_name = ""
       THEN UNCHANGED categories
       ELSE IF category_id \notin CategoryIds
            THEN UNCHANGED categories
            ELSE LET category == GetCategory(category_id)
                 IN  IF IExactMatches(categories \ {category}, category_name,
                                      category.type) # {}
                     THEN UNCHANGED categories
                     ELSE /\ categories' = (categories \ {category}) \cup
                                 {[category EXCEPT !.name = category_name]}

(* category.delete(): SpendingLimit.category is on_delete=CASCADE *)
DeleteCascade(limits, category_id) == {l \in limits : l.category # category_id}

(* delete_category without the test for transactions in use *)
CategoryInUse_Never(category_id) == FALSE

(* Transaction.objects.filter(category=category).exists() *)
CategoryInUse(category_id) == \E t \in transactions : t.category = category_id

settings_delete_category(category_id) ==
    /\ Unchanged_rest
    /\ UNCHANGED <<total_amount, transactions, saving_goals, purchase_goals>>
    /\ IF category_id \notin CategoryIds
       THEN UNCHANGED <<categories, spending_limits>>
       ELSE IF CategoryInUse(category_id)
            THEN UNCHANGED <<categories, spending_limits>>
            ELSE /\ categories' = categories \ {GetCategory(category_id)}
                 /\ spending_limits' = DeleteCascade(spending_limits, category_id)

----------------------------------------------------------------------------
(* Purchase goals: add_purchase_goal_view, dashboard_view, goals_view       *)

(* (self.price / user_total_amount) * 100 <= self.trigger_percentage, on    *)
(* Decimals: dividing by zero raises; dividing by a negative balance turns  *)
(* the comparison around.                                                   *)
can_purchase(goal, user_total_amount) ==
    IF user_total_amount = 0
    THEN [raises |-> TRUE, value |-> FALSE]
    ELSE [raises |-> FALSE,
          value |-> IF user_total_amount > 0
                    THEN goal.price * 100 <= goal.trigger_percentage * user_total_amount
                    ELSE goal.price * 100 >= goal.trigger_percentage * user_total_amount]

(* PurchaseGoalForm.clean_trigger_percentage *)
TriggerValid(trigger_percentage) ==
    ~(trigger_percentage # 0 /\ (trigger_percentage < 0 \/ trigger_percentage > 100))

add_purchase_goal_view(u, price, trigger_percentage) ==
    /\ UNCHANGED <<today, requests, call, memory_cache, password, reset_tokens>>
    /\ UNCHANGED <<total_amount, categories, transactions, saving_goals,
                   spending_limits>>
    /\ IF ~TriggerValid(trigger_percentage)
       THEN UNCHANGED <<purchase_goals, notify_count>>
       ELSE /\ purchase_goals' = purchase_goals \cup
                   {[id |-> NextId(purchase_goals), user |-> u, price |-> price,
                     trigger_percentage |-> trigger_percentage,
                     is_notified |-> FALSE]}
            /\ notify_count' = notify_count @@ (NextId(purchase_goals) :> 0)

(* The test of the flag left out *)
ShouldNotify_IgnoringFlag(goal, user_total_amount) ==
    can_purchase(goal, user_total_amount).value

(* if goal.can_purchase(user.total_amount) and not goal.is_notified *)
ShouldNotify(goal, user_total_amount) ==
    can_purchase(goal, user_total_amount).value /\ ~goal.is_notified

(* The flag following affordability instead of latching *)
CheckedGoal_Rearmed(goal, user_total_amount) ==
    [goal EXCEPT !.is_notified = can_purchase(goal, user_total_amount).value]

(* goal.is_notified = True; goal.save(), for a goal that is due *)
CheckedGoal(goal, user_total_amount) ==
    IF ShouldNotify(goal, user_total_amount)
    THEN [goal EXCEPT !.is_notified = TRUE]
    ELSE goal

(* "Satin alma hedeflerini kontrol et": the loop of dashboard_view and of   *)
(* goals_view. Every goal is tested against the same balance, so the first  *)
(* test raises or none does.                                                *)
CheckPurchaseGoals(u) ==
    LET mine == {g \in purchase_goals : g.user = u}
        due  == {g \in mine : ShouldNotify(g, total_amount[u])}
    IN  IF \E g \in mine : can_purchase(g, total_amount[u]).raises
        THEN UNCHANGED <<purchase_goals, notify_count>>
        ELSE /\ purchase_goals' = (purchase_goals \ mine) \cup
                    {CheckedGoal(g, total_amount[u]) : g \in mine}
             /\ notify_count' = [id \in DOMAIN notify_count |->
                    IF \E g \in due : g.id = id THEN notify_count[id] + 1
                                                ELSE notify_count[id]]

dashboard_view(u) ==
    /\ UNCHANGED <<today, requests, call, memory_cache, password, reset_tokens>>
    /\ UNCHANGED <<total_amount, categories, transactions, saving_goals,
                   spending_limits>>
    /\ CheckPurchaseGoals(u)

goals_view(u) ==
    /\ UNCHANGED <<today, requests, call, memory_cache, password, reset_tokens>>
    /\ UNCHANGED <<total_amount, categories, transactions, saving_goals,
                   spending_limits>>
    /\ CheckPurchaseGoals(u)

----------------------------------------------------------------------------
(* Spending limits                                                          *)

(* date__range=[start_of_week, end_of_week] with                            *)
(* start_of_week = today - timedelta(days=today.weekday())                  *)
InWeekOf(date, now) ==
    LET start_of_week == ToOrdinal(now) - Weekday(now)
        end_of_week == start_of_week + 6
    IN  start_of_week <= ToOrdinal(date) /\ ToOrdinal(date) <= end_of_week

(* SpendingLimit.current_spending *)
current_spending(limit) ==
    LET mine == {t \in transactions :
                    t.user = limit.user /\ t.category = limit.category}
    IN  IF limit.period = "daily"
        THEN SumAmount({t \in mine : t.date = today})
        ELSE IF limit.period = "weekly"
        THEN SumAmount({t \in mine : InWeekOf(t.date, today)})
        ELSE IF limit.period = "monthly"
        THEN SumAmount({t \in mine : t.date.year = today.year
                                     /\ t.date.month = today.month})
        ELSE 0

(* Exceeded already at the limit *)
is_exceeded_AtLimit(limit) == current_spending(limit) >= limit.amount

(* SpendingLimit.is_exceeded *)
is_exceeded(limit) == current_spending(limit) > limit.amount

PERIOD_CHOICES == {"daily", "weekly", "monthly"}

(* SpendingLimitForm: the category queryset is narrowed to type 'gider'     *)
(* only when the form is given a user.                                      *)
SpendingLimitFormValid(has_user, category, period) ==
    /\ category \in CategoryIds
    /\ has_user => CategoryType(category) = "gider"
    /\ period \in PERIOD_CHOICES

add_spending_limit_view(u, category, amount, period) ==
    /\ Unchanged_rest
    /\ UNCHANGED <<total_amount, categories, transactions, saving_goals,
                   purchase_goals>>
    /\ IF ~SpendingLimitFormValid(TRUE, category, period)
       THEN UNCHANGED spending_limits
       ELSE /\ spending_limits' = spending_limits \cup
                   {[id |-> NextId(spending_limits), user |-> u,
                     category |-> category, amount |-> amount, period |-> period]}

edit_spending_limit_rows(u, limit_id, category, amount, period) ==
    /\ UNCHANGED <<total_amount, categories, transactions, saving_goals,
                   purchase_goals>>
    /\ IF ~\E l \in spending_limits : l.id = limit_id /\ l.user = u
       THEN UNCHANGED spending_limits
       ELSE IF ~SpendingLimitFormValid(FALSE, category, period)
            THEN UNCHANGED spending_limits
            ELSE LET limit == CHOOSE l \in spending_limits : l.id = limit_id
                 IN  /\ spending_limits' = (spending_limits \ {limit}) \cup
                            {[limit EXCEPT !.category = category,
                                           !.amount = amount,
                                           !.period = period]}

edit_spending_limit_view(u, limit_id, category, amount, period) ==
    /\ Unchanged_rest
    /\ edit_spending_limit_rows(u, limit_id, category, amount, period)

delete_spending_limit_rows(u, limit_id) ==
    /\ UNCHANGED <<total_amount, categories, transactions, saving_goals,
                   purchase_goals>>
    /\ IF ~\E l \in spending_limits : l.id = limit_id /\ l.user = u
       THEN UNCHANGED spending_limits
       ELSE /\ spending_limits' = {l \in spending_limits : l.id # limit_id}

delete_spending_limit_view(u, limit_id) ==
    /\ Unchanged_rest
    /\ delete_spending_limit_rows(u, limit_id)

----------------------------------------------------------------------------
(* The ledger: one user's requests, one at a time, from an empty database   *)

ReferenceDay == Date(2024, 2, 29)

Init ==
    /\ today = ReferenceDay
    /\ total_amount = [u \in Users |-> 0]
    /\ categories = {}
    /\ transactions = {}
    /\ saving_goals = {}
    /\ purchase_goals = {}
    /\ spending_limits = {}
    /\ notify_count = <<>>
    /\ requests = {}
    /\ memory_cache = {}
    /\ password = [u \in Users |-> [raw |-> "", salt |-> 0]]
    /\ reset_tokens = {}
    /\ call = NoCall

Amounts == {-5, 10}
IncomeNames == {"", "maas"}
ExpenseNames == {"", "market"}
CategoryChoices == 0..MaxCategoryId
TxIds == 1..MaxTx
GoalIds == 1..MaxGoals

AddIncome ==
    /\ NextId(transactions) <= MaxTx
    /\ \E choice \in CategoryChoices, new_name \in IncomeNames, amount \in Amounts :
          add_income_view("u1", choice, new_name, amount, today)

AddExpense ==
    /\ NextId(transactions) <= MaxTx
    /\ \E choice \in CategoryChoices, new_name \in ExpenseNames, amount \in Amounts :
          add_expense_view("u1", choice, new_name, amount, today)

EditTransaction ==
    \E id \in TxIds, choice \in CategoryChoices,
       new_name \in IncomeNames \cup ExpenseNames, amount \in Amounts :
          edit_transaction_view("u1", id, choice, new_name, amount, today)

DeleteTransaction == \E id \in TxIds : delete_transaction_view("u1", id)

AddSavingGoal ==
    /\ NextId(saving_goals) <= MaxGoals
    /\ add_saving_goal_view("u1", 100)

AddMoney ==
    \E id \in GoalIds, numeric \in BOOLEAN, amount \in Amounts :
        add_money_view("u1", id, numeric, amount)

Next ==
    \/ AddIncome
    \/ AddExpense
    \/ EditTransaction
    \/ DeleteTransaction
    \/ AddSavingGoal
    \/ AddMoney

Spec == Init /\ [][Next]_vars

(* The sums the balance is meant to track *)
OfType(u, type) ==
    {t \in transactions : t.user = u /\ CategoryType(t.category) = type}

RECURSIVE SumCurrent(_)
SumCurrent(goals) ==
    IF goals = {} THEN 0
    ELSE LET g == CHOOSE x \in goals : TRUE
         IN  g.current_amount + SumCurrent(goals \ {g})

Deposited(u) == SumCurrent({g \in saving_goals : g.user = u})

(* C1: after any sequence of add-income, add-expense, edit, delete and      *)
(* deposit requests, total_amount is the initial balance (Init: 0) plus the *)
(* stored incomes minus the stored expenses minus the deposits made.        *)
C1_BalanceMatchesLedger ==
    \A u \in Users :
        total_amount[u] = SumAmount(OfType(u, "gelir"))
                          - SumAmount(OfType(u, "gider")) - Deposited(u)

C1_Witness ==
    /\ \E t \in OfType("u1", "gelir") : t.amount = 10
    /\ \E t \in OfType("u1", "gider") : t.amount = -5
    /\ saving_goals # {}
    /\ total_amount["u1"] = 15

(* C9: every stored transaction has amount > 0. *)
C9_AmountsPositive == \A t \in transactions : t.amount > 0

----------------------------------------------------------------------------
(* The category table under financial_info_view, settings_view and the      *)
(* transaction views, from an empty database                                *)

SettingsNames == {"", "market", "MARKET"}
CategoryIdInputs == 1..MaxCategoryId

FinancialInfo == \E amount \in {-5, 100} : financial_info_view("u1", amount)

SettingsAddCategory ==
    \E name \in SettingsNames, type \in {"gelir", "gider"} :
        settings_add_category(name, type)

SettingsEditCategory ==
    \E id \in CategoryIdInputs, name \in SettingsNames :
        settings_edit_category(id, name)

SettingsDeleteCategory ==
    \E id \in CategoryIdInputs : settings_delete_category(id)

CatAddExpense ==
    /\ NextId(transactions) <= MaxTx
    /\ \E choice \in CategoryChoices, new_name \in ExpenseNames :
          add_expense_view("u1", choice, new_name, 10, today)

CatEditTransaction ==
    \E id \in TxIds, choice \in CategoryChoices, new_name \in ExpenseNames :
        edit_transaction_view("u1", id, choice, new_name, 10, today)

NextCategories ==
    \/ FinancialInfo
    \/ SettingsAddCategory
    \/ SettingsEditCategory
    \/ SettingsDeleteCategory
    \/ CatAddExpense
    \/ CatEditTransaction
    \/ DeleteTransaction

SpecCategories == Init /\ [][NextCategories]_vars

(* C7: every stored transaction's category exists. *)
C7_CategoriesOfTransactionsExist ==
    \A t \in transactions : t.category \in CategoryIds

(* a transaction refers to a category that a delete-category request can name *)
C7_Witness ==
    \E t \in transactions : t.category \in CategoryIdInputs

(* C8: no two stored categories have the same type and names equal ignoring *)
(* case.                                                                    *)
C8_NamesUniquePerType ==
    \A c1, c2 \in categories :
        (c1.type = c2.type /\ Lower(c1.name) = Lower(c2.name)) => c1 = c2

----------------------------------------------------------------------------
(* Purchase goals under page views and balance changes, from an empty       *)
(* database                                                                 *)

GoalAmounts == {10, 20}

AddPurchaseGoal ==
    /\ NextId(purchase_goals) <= MaxGoals
    /\ \E trigger_percentage \in {50, 100, 101} :
          add_purchase_goal_view("u1", 10, trigger_percentage)

Dashboard == dashboard_view("u1")

Goals == goals_view("u1")

GoalAddIncome ==
    /\ NextId(transactions) <= MaxTx
    /\ \E amount \in GoalAmounts : add_income_view("u1", None, "maas", amount, today)

GoalAddExpense ==
    /\ NextId(transactions) <= MaxTx
    /\ \E amount \in GoalAmounts : add_expense_view("u1", None, "market", amount, today)

GoalEditTransaction ==
    \E id \in TxIds, amount \in GoalAmounts :
        edit_transaction_view("u1", id, None, "maas", amount, today)

NextGoals ==
    \/ AddPurchaseGoal
    \/ Dashboard
    \/ Goals
    \/ GoalAddIncome
    \/ GoalAddExpense
    \/ GoalEditTransaction
    \/ DeleteTransaction

SpecGoals == Init /\ [][NextGoals]_vars

Affordable(goal) == can_purchase(goal, total_amount[goal.user])

(* C3: once is_notified is true for a purchase goal it stays true under     *)
(* every later operation.                                                   *)
C3_NotifiedIsSticky ==
    [][\A g \in purchase_goals :
          g.is_notified =>
              \E h \in purchase_goals' : h.id = g.id /\ h.is_notified]_vars

(* a notified goal that is not affordable any more *)
C3_Witness ==
    \E g \in purchase_goals :
        g.is_notified /\ ~Affordable(g).raises /\ ~Affordable(g).value

(* C4: a goal's notification is emitted at most once, and only by a view    *)
(* that found can_purchase true for the balance and the flag still false.   *)
C4_NotifiedAtMostOnce ==
    [][\A g \in purchase_goals :
          /\ notify_count'[g.id] <= 1
          /\ notify_count'[g.id] # notify_count[g.id] =>
                 /\ notify_count'[g.id] = notify_count[g.id] + 1
                 /\ Affordable(g).value
                 /\ ~g.is_notified]_vars

(* notified once, flagged, and affordable again *)
C4_Witness ==
    \E g \in purchase_goals :
        /\ notify_count[g.id] = 1
        /\ g.is_notified
        /\ Affordable(g).value
        /\ OfType(g.user, "gider") # {}

(* C5: with a balance of zero or less can_purchase returns false and does   *)
(* not raise.                                                               *)
C5_NoPurchaseWithoutBalance ==
    \A g \in purchase_goals :
        total_amount[g.user] <= 0 =>
            ~Affordable(g).raises /\ ~Affordable(g).value

----------------------------------------------------------------------------
(* Spending limits under limit and expense requests while the days pass.    *)
(* The database holds the categories of two earlier add_category requests.  *)

Days == <<Date(2024, 2, 29), Date(2024, 3, 1), Date(2024, 3, 4)>>
ExpenseDates == Range(Days) \cup {Date(2023, 3, 1)}
ExpenseAmounts == {10, 15}
LimitAmounts == {10}
LimitIds == 1..MaxLimits

InitLimits ==
    /\ today = Days[1]
    /\ total_amount = [u \in Users |-> 0]
    /\ categories = CreateCategory(CreateCategory({}, "Market", "gider"),
                                   "Maas", "gelir")
    /\ transactions = {}
    /\ saving_goals = {}
    /\ purchase_goals = {}
    /\ spending_limits = {}
    /\ notify_count = <<>>
    /\ requests = {}
    /\ memory_cache = {}
    /\ password = [u \in Users |-> [raw |-> "", salt |-> 0]]
    /\ reset_tokens = {}
    /\ call = NoCall

(* timezone.now().date() moves on *)
NextDay ==
    /\ \E i \in 1..(Len(Days) - 1) : today = Days[i] /\ today' = Days[i + 1]
    /\ UNCHANGED <<total_amount, categories, transactions, saving_goals,
                   purchase_goals, spending_limits, notify_count, requests, call,
                   memory_cache, password, reset_tokens>>

AddSpendingLimit ==
    /\ NextId(spending_limits) <= MaxLimits
    /\ \E category \in CategoryIds, amount \in LimitAmounts,
          period \in PERIOD_CHOICES \cup {"yearly"} :
          add_spending_limit_view("u1", category, amount, period)

EditSpendingLimit ==
    \E id \in LimitIds, category \in CategoryIds, amount \in LimitAmounts,
       period \in PERIOD_CHOICES \cup {"yearly"} :
          edit_spending_limit_view("u1", id, category, amount, period)

DeleteSpendingLimit == \E id \in LimitIds : delete_spending_limit_view("u1", id)

LimitAddExpense ==
    /\ NextId(transactions) <= MaxTx
    /\ \E choice \in CategoryIds, amount \in ExpenseAmounts, date \in ExpenseDates :
          add_expense_view("u1", choice, "", amount, date)

LimitEditTransaction ==
    \E id \in TxIds, amount \in ExpenseAmounts, date \in ExpenseDates :
        edit_transaction_view("u1", id, None, "market", amount, date)

NextLimits ==
    \/ NextDay
    \/ AddSpendingLimit
    \/ EditSpendingLimit
    \/ DeleteSpendingLimit
    \/ LimitAddExpense
    \/ LimitEditTransaction
    \/ DeleteTransaction

SpecLimits == InitLimits /\ [][NextLimits]_vars

(* The window a limit's period names, on the calendar: the same day, the    *)
(* same Monday-to-Sunday week, the same month of the same year.             *)
WeekNumber(d) == (ToOrdinal(d) - 1) \div 7

InCurrentWindow(period, date) ==
    CASE period = "daily" -> date = today
      [] period = "weekly" -> WeekNumber(date) = WeekNumber(today)
      [] period = "monthly" -> date.year = today.year /\ date.month = today.month

(* C6: is_exceeded() is true exactly when the stored transactions of the    *)
(* limit's owner and category dated inside the current window sum to        *)
(* strictly more than the limit amount.                                     *)
C6_ExceededIffWindowSumAboveLimit ==
    \A l \in spending_limits :
        is_exceeded(l) <=>
            SumAmount({t \in transactions :
                          /\ t.user = l.user
                          /\ t.category = l.category
                          /\ InCurrentWindow(l.period, t.date)}) > l.amount

(* a weekly limit whose week holds exactly the limit amount, with a         *)
(* transaction of the same category outside the week, days later           *)
C6_Witness ==
    /\ today = Days[Len(Days)]
    /\ \E l \in spending_limits :
          /\ l.period = "weekly"
          /\ current_spending(l) = l.amount
          /\ ~is_exceeded(l)
          /\ \E t \in transactions :
                t.category = l.category /\ ~InCurrentWindow("weekly", t.date)

(* C10: no stored spending limit has a category of type 'gelir'. *)
C10_LimitsOnExpenseCategories ==
    \A l \in spending_limits : CategoryType(l.category) = "gider"

----------------------------------------------------------------------------
(* Requests of one user that overlap. A request reads request.user when it  *)
(* starts (login_required), then writes the transaction row, then saves its *)
(* copy of the user row with the balance it computed. The database holds    *)
(* the income of one earlier add_income request.                            *)

InitRace ==
    /\ today = ReferenceDay
    /\ total_amount = [u \in Users |-> IF u = "u1" THEN 10 ELSE 0]
    /\ categories = CreateCategory({}, "maas", "gelir")
    /\ transactions = {[id |-> 1, user |-> "u1", category |-> 1, amount |-> 10,
                        date |-> ReferenceDay]}
    /\ saving_goals = {}
    /\ purchase_goals = {}
    /\ spending_limits = {}
    /\ notify_count = <<>>
    /\ requests = {}
    /\ memory_cache = {}
    /\ password = [u \in Users |-> [raw |-> "", salt |-> 0]]
    /\ reset_tokens = {}
    /\ call = NoCall

Moved(r, pc) == (requests \ {r}) \cup {[r EXCEPT !.pc = pc]}

(* login_required evaluates request.user: the row is read here. For an      *)
(* edit, get_object_or_404 and old_amount come right after.                 *)
request_begin(u, view, amount, transaction_id) ==
    /\ UNCHANGED <<call, memory_cache, password, reset_tokens>>
    /\ UNCHANGED <<today, total_amount, categories, transactions, saving_goals,
                   purchase_goals, spending_limits, notify_count>>
    /\ LET found == \E t \in transactions : t.id = transaction_id /\ t.user = u
           t == CHOOSE x \in transactions : x.id = transaction_id
       IN  requests' = requests \cup
               {[rid |-> Cardinality(requests) + 1, user |-> u, view |-> view,
                 pc |-> IF view = "edit" /\ ~found THEN "done" ELSE "loaded",
                 total |-> total_amount[u], amount |-> amount,
                 transaction_id |-> transaction_id,
                 category |-> IF view = "edit" /\ found THEN t.category ELSE None,
                 type |-> CASE view = "add_income" -> "gelir"
                            [] view = "add_expense" -> "gider"
                            [] view = "edit" /\ found -> CategoryType(t.category)
                            [] OTHER -> "",
                 old_amount |-> IF view = "edit" /\ found THEN t.amount ELSE 0]}

(* transaction.save() / transaction.delete() *)
request_write(r) ==
    /\ r.pc = "loaded"
    /\ UNCHANGED <<call, memory_cache, password, reset_tokens>>
    /\ UNCHANGED <<today, total_amount, saving_goals, purchase_goals,
                   spending_limits, notify_count>>
    /\ CASE r.view \in {"add_income", "add_expense"} ->
              LET c == ResolveCategory(r.type, None,
                           IF r.type = "gelir" THEN "maas" ELSE "market")
              IN  /\ categories' = c.cats
                  /\ transactions' = transactions \cup
                         {[id |-> NextId(transactions), user |-> r.user,
                           category |-> c.category, amount |-> r.amount,
                           date |-> today]}
                  /\ requests' = Moved(r, "written")
         [] r.view = "edit" ->
              (* save() of a row another request deleted inserts it again *)
              /\ transactions' = {t \in transactions : t.id # r.transaction_id} \cup
                     {[id |-> r.transaction_id, user |-> r.user,
                       category |-> r.category,
                       amount |-> r.amount, date |-> today]}
              /\ requests' = Moved(r, "written")
              /\ UNCHANGED categories
         [] r.view = "delete" ->
              /\ UNCHANGED categories
              /\ IF ~\E t \in transactions :
                        t.id = r.transaction_id /\ t.user = r.user
                 THEN /\ requests' = Moved(r, "done")
                      /\ UNCHANGED transactions
                 ELSE LET t == CHOOSE x \in transactions : x.id = r.transaction_id
                      IN  /\ transactions' = transactions \ {t}
                          /\ requests' = (requests \ {r}) \cup
                                 {[r EXCEPT !.pc = "written",
                                            !.type = CategoryType(t.category),
                                            !.amount = t.amount]}

(* The balance the request computed on its copy of the user row *)
RequestTotal(r) ==
    CASE r.view = "add_income" -> IncomeAdded(r.total, r.amount)
      [] r.view = "add_expense" -> ExpenseAdded(r.total, r.amount)
      [] r.view = "edit" -> EditedTotal(r.total, r.type, r.old_amount, r.amount)
      [] r.view = "delete" -> DeletedTotal(r.total, r.type, r.amount)

(* request.user.save() *)
request_save(r) ==
    /\ r.pc = "written"
    /\ total_amount' = [total_amount EXCEPT ![r.user] = RequestTotal(r)]
    /\ requests' = Moved(r, "done")
    /\ UNCHANGED <<call, memory_cache, password, reset_tokens>>
    /\ UNCHANGED <<today, categories, transactions, saving_goals, purchase_goals,
                   spending_limits, notify_count>>

RaceInputs ==
    {<<"add_income", 20, None>>, <<"add_expense", 10, None>>,
     <<"add_expense", 20, None>>, <<"edit", 20, 1>>, <<"delete", 0, 1>>}

RaceBegin ==
    /\ Cardinality(requests) < MaxRequests
    /\ \E in \in RaceInputs : request_begin("u1", in[1], in[2], in[3])

RaceWrite == \E r \in requests : request_write(r)

RaceSave == \E r \in requests : request_save(r)

NextRace == RaceBegin \/ RaceWrite \/ RaceSave

SpecRace == InitRace /\ [][NextRace]_vars

(* C2: when overlapping balance-changing requests of a user have all        *)
(* finished, total_amount reflects the effect of each of them, that is, it  *)
(* matches the ledger they wrote.                                           *)
C2_OverlappingRequestsBothCount ==
    (\A r \in requests : r.pc = "done") => C1_BalanceMatchesLedger

----------------------------------------------------------------------------
(* Spending limits beside the settings view: the categories are shared by   *)
(* all users, and a limit row points at its category with on_delete=CASCADE *)

OtherDeleteSpendingLimit ==
    \E id \in LimitIds : delete_spending_limit_view("u2", id)

FrameAddExpense ==
    /\ NextId(transactions) <= MaxTx
    /\ \E choice \in CategoryIds : add_expense_view("u1", choice, "", 10, today)

NextLimitFrame ==
    \/ AddSpendingLimit
    \/ EditSpendingLimit
    \/ DeleteSpendingLimit
    \/ OtherDeleteSpendingLimit
    \/ SettingsAddCategory
    \/ SettingsDeleteCategory
    \/ FrameAddExpense
    \/ DeleteTransaction
    \/ NextDay

SpecLimitFrame == InitLimits /\ [][NextLimitFrame]_vars

(* C11: a stored spending limit disappears only in a step that is the       *)
(* delete-limit request of its owner for that limit; every other step,      *)
(* deleting a category in the settings view included, keeps every limit.    *)
C11_LimitsRemovedOnlyByOwnerDelete ==
    [][\A l \in spending_limits :
          (~\E k \in spending_limits' : k.id = l.id)
              => delete_spending_limit_view(l.user, l.id)]_vars

----------------------------------------------------------------------------
(* Date ranges: modular_framework/utils/date_utils.py and                   *)
(* financial_core/utils.py                                                  *)

Years == {2023, 2024, 2100}
(* date.fromordinal(n), the inverse of toordinal() *)
FromOrdinal(n) ==
    LET y == CHOOSE c \in (n \div 366)..(n \div 365 + 1) :
                 /\ ToOrdinal(Date(c, 1, 1)) <= n
                 /\ n < ToOrdinal(Date(c + 1, 1, 1))
        m == CHOOSE c \in 1..12 :
                 /\ ToOrdinal(Date(y, c, 1)) <= n
                 /\ (c = 12 \/ n < ToOrdinal(Date(y, c + 1, 1)))
    IN  Date(y, m, n - ToOrdinal(Date(y, m, 1)) + 1)

(* date - timedelta(days=k), date + timedelta(days=k) *)
MinusDays(d, k) == FromOrdinal(ToOrdinal(d) - k)
PlusDays(d, k) == FromOrdinal(ToOrdinal(d) + k)

Returned(start, end) == [raises |-> FALSE, none |-> FALSE, start |-> start, end |-> end]

(* (None, None) *)
ReturnedNone == [raises |-> FALSE, none |-> TRUE]

(* date_utils.get_month_start_end(year, month) *)
get_month_start_end(year, month) ==
    LET start_of_month == Date(year, month, 1)
        next_month == IF month = 12 THEN Date(year + 1, 1, 1)
                      ELSE Date(year, month + 1, 1)
    IN  Returned(start_of_month, MinusDays(next_month, 1))

(* date_utils.get_date_range(period, reference_date) *)
get_date_range(period, reference_date) ==
    CASE period = "daily" -> Returned(reference_date, reference_date)
      [] period = "weekly" ->
            LET start_date == MinusDays(reference_date, Weekday(reference_date))
            IN  Returned(start_date, PlusDays(start_date, 6))
      [] period = "monthly" ->
            get_month_start_end(reference_date.year, reference_date.month)
      [] period = "yearly" ->
            Returned(Date(reference_date.year, 1, 1), Date(reference_date.year, 12, 31))
      [] OTHER ->
            get_month_start_end(reference_date.year, reference_date.month)

(* financial_core.utils.get_date_range(period, start_date) *)
core_get_date_range(period, start_date) ==
    CASE period = "daily" -> Returned(start_date, start_date)
      [] period = "weekly" ->
            LET start_of_week == MinusDays(start_date, Weekday(start_date))
            IN  Returned(start_of_week, PlusDays(start_of_week, 6))
      [] period = "monthly" ->
            LET start_of_month == [start_date EXCEPT !.day = 1]
                first_of_next ==
                    IF start_date.month = 12
                    THEN Date(start_date.year + 1, 1, 1)
                    ELSE Date(start_date.year, start_date.month + 1, 1)
            IN  Returned(start_of_month, MinusDays(first_of_next, 1))
      [] OTHER -> ReturnedNone

(* financial_core.utils.calculate_period_transactions over a queryset       *)
(* (here: the stored transactions), with no category                        *)
calculate_period_transactions(rows, period, date) ==
    LET range == core_get_date_range(period, date)
    IN  IF range.none
        THEN [raises |-> FALSE, value |-> 0]
        ELSE [raises |-> FALSE,
              value |-> SumAmount({t \in rows :
                            /\ ToOrdinal(range.start) <= ToOrdinal(t.date)
                            /\ ToOrdinal(t.date) <= ToOrdinal(range.end)})]

ValidDates ==
    {Date(y, m, d) : y \in Years, m \in 1..12, d \in 1..31} \cap
    {x \in [year : Years, month : 1..12, day : 1..31] :
        x.day <= (IF x.month = 12 THEN 31
                  ELSE DaysBeforeMonth(x.year, x.month + 1)
                       - DaysBeforeMonth(x.year, x.month))}

PeriodKeywords == {"daily", "weekly", "monthly", "yearly", "quarterly", ""}
KnownPeriods == {"daily", "weekly", "monthly", "yearly"}

InitDates ==
    /\ today \in ValidDates
    /\ total_amount = [u \in Users |-> 0]
    /\ categories = {}
    /\ transactions = {}
    /\ saving_goals = {}
    /\ purchase_goals = {}
    /\ spending_limits = {}
    /\ notify_count = <<>>
    /\ requests = {}
    /\ memory_cache = {}
    /\ password = [u \in Users |-> [raw |-> "", salt |-> 0]]
    /\ reset_tokens = {}
    /\ call = NoCall

Unchanged_database ==
    UNCHANGED <<today, total_amount, categories, transactions, saving_goals,
                purchase_goals, spending_limits, notify_count, requests,
                memory_cache, password, reset_tokens>>

CallGetDateRange ==
    /\ Unchanged_database
    /\ \E period \in PeriodKeywords :
          call' = [fn |-> "date_utils.get_date_range", period |-> period,
                   reference_date |-> today,
                   out |-> get_date_range(period, today)]

CallCoreGetDateRange ==
    /\ Unchanged_database
    /\ \E period \in PeriodKeywords :
          call' = [fn |-> "financial_core.get_date_range", period |-> period,
                   reference_date |-> today,
                   out |-> core_get_date_range(period, today)]

CallCalculatePeriodTransactions ==
    /\ Unchanged_database
    /\ \E period \in PeriodKeywords :
          call' = [fn |-> "calculate_period_transactions", period |-> period,
                   reference_date |-> today,
                   out |-> calculate_period_transactions(transactions, period, today)]

NextDates ==
    \/ CallGetDateRange
    \/ CallCoreGetDateRange
    \/ CallCalculatePeriodTransactions

SpecDates == InitDates /\ [][NextDates]_vars

(* The calendar, as the range of a period is stated *)
MonthLength(y, m) ==
    IF m = 2
    THEN (IF (y % 4 = 0 /\ y % 100 # 0) \/ y % 400 = 0 THEN 29 ELSE 28)
    ELSE IF m \in {4, 6, 9, 11} THEN 30 ELSE 31

DateLeq(a, b) ==
    \/ a.year < b.year
    \/ a.year = b.year /\ a.month < b.month
    \/ a.year = b.year /\ a.month = b.month /\ a.day <= b.day

RangeAsStated(period, D, out) ==
    /\ ~out.raises
    /\ ~out.none
    /\ DateLeq(out.start, D)
    /\ DateLeq(D, out.end)
    /\ CASE period = "daily" -> out.start = D /\ out.end = D
         [] period = "weekly" ->
               /\ Weekday(out.start) = 0
               /\ ToOrdinal(D) - ToOrdinal(out.start) \in 0..6
               /\ ToOrdinal(out.end) = ToOrdinal(out.start) + 6
         [] period = "monthly" ->
               /\ out.start = Date(D.year, D.month, 1)
               /\ out.end = Date(D.year, D.month, MonthLength(D.year, D.month))
         [] period = "yearly" ->
               /\ out.start = Date(D.year, 1, 1)
               /\ out.end = Date(D.year, 12, 31)

IsRangeCall ==
    call.fn \in {"date_utils.get_date_range", "financial_core.get_date_range"}

(* date_utils.get_date_range alone returns the stated range *)
DateUtilsRangeAsStated ==
    (call.fn = "date_utils.get_date_range" /\ call.period \in KnownPeriods)
        => RangeAsStated(call.period, call.reference_date, call.out)

(* C12: for every period of daily, weekly, monthly, yearly and every        *)
(* reference date D, get_date_range (either implementation) returns the     *)
(* range of D's day, Monday-to-Sunday week, calendar month or calendar year *)
(* with start <= D <= end.                                                  *)
C12_DateRangeOfPeriod ==
    (IsRangeCall /\ call.period \in KnownPeriods)
        => RangeAsStated(call.period, call.reference_date, call.out)

(* C13: a period keyword outside daily, weekly, monthly, yearly makes every *)
(* call site fail with an error: no range, no zero result.                  *)
C13_UnknownPeriodRaises ==
    (call.fn # "none" /\ call.period \notin KnownPeriods) => call.out.raises

----------------------------------------------------------------------------
(* Decimal arithmetic, in units of 1/Scale. Python's context rounds a       *)
(* quotient to 28 significant digits, half to even; here the quotient is    *)
(* rounded the same way to DecimalPlaces places.                            *)

DecimalPlaces == 4
Scale == 10 ^ DecimalPlaces

(* n / d for d > 0, rounded half to even *)
RoundHalfEven(n, d) ==
    LET q == n \div d
        r == n % d
    IN  IF 2 * r < d THEN q
        ELSE IF 2 * r > d THEN q + 1
        ELSE IF q % 2 = 0 THEN q ELSE q + 1

(* Decimal / Decimal: a and b in the same unit, the result in 1/Scale *)
DecimalDivide(a, b) ==
    IF b = 0 THEN [raises |-> TRUE, value |-> 0]
    ELSE [raises |-> FALSE,
          value |-> IF b > 0 THEN RoundHalfEven(a * Scale, b)
                    ELSE RoundHalfEven((0 - a) * Scale, 0 - b)]

----------------------------------------------------------------------------
(* TransactionAnalyzer: get_summary_by_period                               *)

(* date__range=[start_date, end_date] *)
InDateRange(t, range) ==
    /\ ToOrdinal(range.start) <= ToOrdinal(t.date)
    /\ ToOrdinal(t.date) <= ToOrdinal(range.end)

(* .aggregate(total=Sum('amount'))['total']: NULL when no row matches *)
AggregateSum(rows) == [null |-> rows = {}, value |-> SumAmount(rows)]

(* ... or 0 *)
OrZero(agg) ==
    IF agg.null \/ agg.value = 0 THEN [null |-> FALSE, value |-> 0] ELSE agg

(* objects.filter(user=user, category__type=type, date__range=[...]) *)
RowsOfType(user, type, range) ==
    {t \in transactions : /\ t.user = user
                          /\ CategoryType(t.category) = type
                          /\ InDateRange(t, range)}

SavingsRate_Unguarded(net_savings, income) ==
    LET q == DecimalDivide(net_savings, income)
    IN  [raises |-> q.raises, value |-> q.value * 100]

(* (net_savings / income * 100) if income > 0 else 0, in 1/Scale percent *)
SavingsRate(net_savings, income) ==
    IF income > 0
    THEN LET q == DecimalDivide(net_savings, income)
         IN  [raises |-> q.raises, value |-> q.value * 100]
    ELSE [raises |-> FALSE, value |-> 0]

get_summary_by_period(user, period, reference_date) ==
    LET range == get_date_range(period, reference_date)
        income == OrZero(AggregateSum(RowsOfType(user, "gelir", range)))
        expense == OrZero(AggregateSum(RowsOfType(user, "gider", range)))
        net_savings == income.value - expense.value
        rate == SavingsRate(net_savings, income.value)
    IN  [raises |-> rate.raises,
         start_date |-> range.start, end_date |-> range.end,
         income |-> income, expense |-> expense,
         net_savings |-> net_savings, savings_rate |-> rate.value]

----------------------------------------------------------------------------
(* TransactionAnalyzer: get_category_breakdown                              *)

(* objects.filter(user=user, category=category, date__range=[...]) *)
RowsOfCategory(user, category_id, range) ==
    {t \in transactions : /\ t.user = user
                          /\ t.category = category_id
                          /\ InDateRange(t, range)}

(* (amount / total * 100) if total > 0 else 0, in 1/Scale percent *)
Percentage(amount, total) ==
    IF total > 0 THEN DecimalDivide(amount, total).value * 100 ELSE 0

(* the loop over the categories, in the order the queryset yields them *)
RECURSIVE BreakdownLoop(_, _, _, _, _)
BreakdownLoop(user, enumerated, range, total, i) ==
    IF i > Len(enumerated) THEN <<>>
    ELSE LET category == enumerated[i]
             amount == OrZero(AggregateSum(
                           RowsOfCategory(user, category.id, range))).value
             rest == BreakdownLoop(user, enumerated, range, total, i + 1)
         IN  IF amount > 0
             THEN <<[category |-> category.name, amount |-> amount,
                     percentage |-> Percentage(amount, total),
                     icon |-> category.icon]>> \o rest
             ELSE rest

InsertSorted_BeforeEqual(sorted, x) ==
    LET before == {i \in 1..Len(sorted) : sorted[i].amount > x.amount}
        k == Cardinality(before)
    IN  SubSeq(sorted, 1, k) \o <<x>> \o SubSeq(sorted, k + 1, Len(sorted))

(* x goes after every element whose amount is not smaller: equal amounts    *)
(* keep the order in which they arrived (list.sort is stable, also with     *)
(* reverse=True)                                                            *)
InsertSorted(sorted, x) ==
    LET before == {i \in 1..Len(sorted) : sorted[i].amount >= x.amount}
        k == Cardinality(before)
    IN  SubSeq(sorted, 1, k) \o <<x>> \o SubSeq(sorted, k + 1, Len(sorted))

(* breakdown.sort(key=lambda x: x['amount'], reverse=True) *)
RECURSIVE SortByAmountDescending(_, _)
SortByAmountDescending(items, n) ==
    IF n = 0 THEN <<>>
    ELSE InsertSorted(SortByAmountDescending(items, n - 1), items[n])

get_category_breakdown(user, category_type, period, reference_date, enumerated) ==
    LET range == get_date_range(period, reference_date)
        total == OrZero(AggregateSum(RowsOfType(user, category_type, range))).value
        breakdown == BreakdownLoop(user, enumerated, range, total, 1)
    IN  [raises |-> FALSE, total |-> total,
         breakdown |-> SortByAmountDescending(breakdown, Len(breakdown)),
         start_date |-> range.start, end_date |-> range.end]

(* category_model.objects.filter(type=category_type) states no ordering:    *)
(* every order of the matching rows is a possible enumeration               *)
Enumerations(category_type) ==
    LET rows == {c \in categories : c.type = category_type}
        n == Cardinality(rows)
    IN  {e \in [1..n -> rows] : \A i, j \in 1..n : e[i] = e[j] => i = j}

----------------------------------------------------------------------------
(* The analyzer over a database filled by the transaction views             *)

AnalyzerAmounts == {-5, 10, 30}
AnalyzerDates == {ReferenceDay, Date(2024, 2, 1)}
AnalyzerPeriods == {"daily", "monthly"}

AnalyzerAddIncome ==
    /\ call = NoCall
    /\ NextId(transactions) <= MaxTx
    /\ \E amount \in AnalyzerAmounts, date \in AnalyzerDates :
          add_income_view("u1", None, "Maas", amount, date)

AnalyzerAddExpense ==
    /\ call = NoCall
    /\ NextId(transactions) <= MaxTx
    /\ \E name \in {"Market", "Kira"}, amount \in AnalyzerAmounts,
          date \in AnalyzerDates :
          add_expense_view("u1", None, name, amount, date)

CallSummary ==
    /\ Unchanged_database
    /\ \E user \in Users, period \in AnalyzerPeriods :
          call' = [fn |-> "get_summary_by_period", user |-> user,
                   period |-> period,
                   out |-> get_summary_by_period(user, period, today)]

CallBreakdown ==
    /\ Unchanged_database
    /\ \E user \in Users, category_type \in {"gelir", "gider"},
          period \in AnalyzerPeriods :
          \E enumerated \in Enumerations(category_type) :
             call' = [fn |-> "get_category_breakdown", user |-> user,
                      category_type |-> category_type, period |-> period,
                      enumerated |-> [i \in DOMAIN enumerated |-> enumerated[i].name],
                      out |-> get_category_breakdown(user, category_type, period,
                                                     today, enumerated)]

NextAnalyzer ==
    \/ AnalyzerAddIncome
    \/ AnalyzerAddExpense
    \/ CallSummary
    \/ CallBreakdown

SpecAnalyzer == Init /\ [][NextAnalyzer]_vars

(* The transactions of a user and type dated in the period that holds today *)
InPeriod(period, date) ==
    CASE period = "daily" -> date = today
      [] period = "monthly" -> date.year = today.year /\ date.month = today.month

Matching(user, type, period) ==
    {t \in transactions : /\ t.user = user
                          /\ CategoryType(t.category) = type
                          /\ InPeriod(period, t.date)}

Abs(x) == IF x < 0 THEN 0 - x ELSE x

(* C14: get_summary_by_period does not raise; income and expense are the    *)
(* sums of the matching amounts, 0 and not null when none match;            *)
(* net_savings = income - expense; savings_rate is net_savings / income *   *)
(* 100 (the quotient rounded as Decimal rounds it) when income > 0, and     *)
(* exactly 0 when income is 0, whatever the expense.                        *)
C14_SummaryOfPeriod ==
    call.fn = "get_summary_by_period" =>
        LET out == call.out
            income == SumAmount(Matching(call.user, "gelir", call.period))
            expense == SumAmount(Matching(call.user, "gider", call.period))
        IN  /\ ~out.raises
            /\ ~out.income.null /\ out.income.value = income
            /\ ~out.expense.null /\ out.expense.value = expense
            /\ out.net_savings = income - expense
            /\ income = 0 => out.savings_rate = 0
            /\ income > 0 =>
                  /\ out.savings_rate % 100 = 0
                  /\ 2 * Abs((out.savings_rate \div 100) * income
                             - (income - expense) * Scale) <= income

(* no income in the period, an expense in it: the rate is 0 *)
C14_Witness ==
    /\ call.fn = "get_summary_by_period"
    /\ call.out.income.value = 0
    /\ call.out.expense.value > 0
    /\ call.out.net_savings < 0
    /\ call.out.savings_rate = 0

RECURSIVE SumItems(_, _)
SumItems(items, n) ==
    IF n = 0 THEN 0 ELSE items[n].amount + SumItems(items, n - 1)

(* C15: the amounts of the items get_category_breakdown returns sum to      *)
(* exactly the total it returns.                                            *)
C15_BreakdownSumsToTotal ==
    call.fn = "get_category_breakdown" =>
        SumItems(call.out.breakdown, Len(call.out.breakdown)) = call.out.total

(* the same, over databases whose amounts are all positive *)
BreakdownSumsToTotalOfPositiveAmounts ==
    (call.fn = "get_category_breakdown" /\ \A t \in transactions : t.amount > 0) =>
        SumItems(call.out.breakdown, Len(call.out.breakdown)) = call.out.total

PositionIn(enumerated, name) == CHOOSE i \in DOMAIN enumerated : enumerated[i] = name

(* C16: the items of get_category_breakdown are in descending order of      *)
(* amount, and items of equal amount are in the order in which the          *)
(* categories were enumerated.                                              *)
C16_BreakdownOrder ==
    call.fn = "get_category_breakdown" =>
        LET items == call.out.breakdown
        IN  \A i, j \in DOMAIN items :
                i < j =>
                    /\ items[i].amount >= items[j].amount
                    /\ items[i].amount = items[j].amount =>
                          PositionIn(call.enumerated, items[i].category)
                              < PositionIn(call.enumerated, items[j].category)

(* two categories with equal amounts, enumerated against their creation order *)
C16_Witness ==
    /\ call.fn = "get_category_breakdown"
    /\ Len(call.out.breakdown) = 2
    /\ call.out.breakdown[1].amount = call.out.breakdown[2].amount
    /\ \E c, d \in categories :
          /\ c.name = call.enumerated[1]
          /\ d.name = call.enumerated[2]
          /\ c.id > d.id

----------------------------------------------------------------------------
(* The monthly trend: TransactionAnalyzer.get_trends_by_month and           *)
(* financial_core.utils.get_monthly_data                                    *)

MaxMonths == 26

WrapMonth_Once(year, month) ==
    IF month < 1 THEN [year |-> year - 1, month |-> month + 12]
    ELSE [year |-> year, month |-> month]

(* while month < 1: month += 12; year -= 1 *)
RECURSIVE WrapMonth(_, _)
WrapMonth(year, month) ==
    IF month < 1 THEN WrapMonth(year - 1, month + 12)
    ELSE [year |-> year, month |-> month]

(* start_date and end_date of the month: the 1st, and the day before the    *)
(* 1st of the next month                                                    *)
MonthBounds(year, month) ==
    [start_date |-> Date(year, month, 1),
     end_date |-> IF month = 12 THEN MinusDays(Date(year + 1, 1, 1), 1)
                  ELSE MinusDays(Date(year, month + 1, 1), 1)]

(* one pass of the loop body, for i months back *)
TrendEntry(user, now, i) ==
    LET ym == WrapMonth(now.year, now.month - i)
        bounds == MonthBounds(ym.year, ym.month)
        range == [start |-> bounds.start_date, end |-> bounds.end_date]
        income == OrZero(AggregateSum(RowsOfType(user, "gelir", range))).value
        expense == OrZero(AggregateSum(RowsOfType(user, "gider", range))).value
    IN  [month |-> ym.month, year |-> ym.year,
         start_date |-> bounds.start_date, end_date |-> bounds.end_date,
         income |-> income, expense |-> expense,
         net_savings |-> income - expense]

(* for i in range(months - 1, -1, -1): the k-th entry is months - k back *)
get_trends_by_month(user, now, months) ==
    [k \in 1..months |-> TrendEntry(user, now, months - k)]

(* get_monthly_data returns the months' names and sums, without the year;   *)
(* year and dates are the ones its filters used                             *)
get_monthly_data(user, now, months) ==
    [k \in 1..months |-> TrendEntry(user, now, months - k)]

TrendDays == {Date(y, m, 15) : y \in Years, m \in 1..12}

InitTrends ==
    /\ today \in TrendDays
    /\ total_amount = [u \in Users |-> 0]
    /\ categories = {}
    /\ transactions = {}
    /\ saving_goals = {}
    /\ purchase_goals = {}
    /\ spending_limits = {}
    /\ notify_count = <<>>
    /\ requests = {}
    /\ memory_cache = {}
    /\ password = [u \in Users |-> [raw |-> "", salt |-> 0]]
    /\ reset_tokens = {}
    /\ call = NoCall

CallTrends ==
    /\ call = NoCall
    /\ Unchanged_database
    /\ \E months \in 1..MaxMonths :
          call' = [fn |-> "get_trends_by_month", months |-> months,
                   out |-> get_trends_by_month("u1", today, months)]

CallMonthlyData ==
    /\ call = NoCall
    /\ Unchanged_database
    /\ \E months \in 1..MaxMonths :
          call' = [fn |-> "get_monthly_data", months |-> months,
                   out |-> get_monthly_data("u1", today, months)]

NextTrends == CallTrends \/ CallMonthlyData

SpecTrends == InitTrends /\ [][NextTrends]_vars

(* months counted from year 0: consecutive months are consecutive numbers *)
MonthIndex(year, month) == year * 12 + month - 1

(* C17: for months = N >= 1 the trend has exactly N entries, oldest first,  *)
(* of N consecutive calendar months ending at the current month, each month *)
(* in 1..12, each entry's range the first through the last day of its month *)
C17_TrendMonthsConsecutive ==
    call.fn \in {"get_trends_by_month", "get_monthly_data"} =>
        LET out == call.out
            N == call.months
        IN  /\ Len(out) = N
            /\ \A k \in 1..N :
                  /\ out[k].month \in 1..12
                  /\ MonthIndex(out[k].year, out[k].month)
                        = MonthIndex(today.year, today.month) - (N - k)
                  /\ out[k].start_date = Date(out[k].year, out[k].month, 1)
                  /\ out[k].end_date =
                        Date(out[k].year, out[k].month,
                             MonthLength(out[k].year, out[k].month))

(* more than a year back: the oldest entry lies two Januaries before today *)
C17_Witness ==
    /\ call.fn = "get_trends_by_month"
    /\ call.months > 12
    /\ call.out[1].year = today.year - 2
    /\ call.out[call.months].month = today.month

----------------------------------------------------------------------------
(* FinancialCalculator: calculate_loan_payment, calculate_investment_growth *)
(* Money and rates are Decimals in units of 1/Scale.                        *)

MaxTerm == 12
MaxYears == 2

(* Decimal * Decimal, both in 1/Scale *)
DecimalMultiply(a, b) ==
    IF a * b >= 0 THEN RoundHalfEven(a * b, Scale)
    ELSE 0 - RoundHalfEven(0 - a * b, Scale)

(* x.quantize(Decimal('0.01'), rounding=ROUND_HALF_UP) *)
Quantize(x) ==
    LET unit == Scale \div 100
        half_up(n) == (2 * n + unit) \div (2 * unit)
    IN  IF x >= 0 THEN half_up(x) * unit ELSE 0 - half_up(0 - x) * unit

(* base ** n for an integer n >= 0 *)
RECURSIVE DecimalPower(_, _)
DecimalPower(base, n) ==
    IF n = 0 THEN Scale ELSE DecimalMultiply(DecimalPower(base, n - 1), base)

(* return principal / time *)
ZeroRatePayment(principal, time) ==
    LET q == DecimalDivide(principal, time)
    IN  [raises |-> q.raises, quotient_evaluated |-> FALSE, value |-> q.value]

(* principal * (numerator / denominator), quantized *)
AmortizedPayment(principal, rate, time) ==
    LET grown == DecimalPower(Scale + rate, time)
        numerator == DecimalMultiply(rate, grown)
        denominator == grown - Scale
        q == DecimalDivide(numerator, denominator)
    IN  [raises |-> q.raises, quotient_evaluated |-> TRUE,
         value |-> IF q.raises THEN 0 ELSE Quantize(principal * q.value)]

IsZeroRate_Never(rate) == FALSE

(* if rate == 0 *)
IsZeroRate(rate) == rate = 0

(* principal and time are whole numbers, annual_rate is in 1/Scale *)
calculate_loan_payment(principal, annual_rate, time) ==
    LET rate == RoundHalfEven(annual_rate, 12)
    IN  IF IsZeroRate(rate)
        THEN ZeroRatePayment(principal, time)
        ELSE AmortizedPayment(principal, rate, time)

MonthlyGrowth_AfterContribution(current_value, monthly_rate, monthly_contribution) ==
    DecimalMultiply(current_value + monthly_contribution, monthly_rate)

(* monthly_growth = current_value * monthly_rate *)
MonthlyGrowth(current_value, monthly_rate, monthly_contribution) ==
    DecimalMultiply(current_value, monthly_rate)

(* The Decimal context keeps Precision significant digits: the result of   *)
(* an addition with more digits is rounded half to even. The products and   *)
(* quotients above stay below that length.                                  *)
Precision == 6

RECURSIVE ContextRoundAt(_, _)
ContextRoundAt(n, unit) ==
    IF n < unit * 10 ^ Precision THEN RoundHalfEven(n, unit) * unit
    ELSE ContextRoundAt(n, unit * 10)

ContextRound(n) ==
    IF n >= 0 THEN ContextRoundAt(n, 1) ELSE 0 - ContextRoundAt(0 - n, 1)

(* Decimal + Decimal *)
DecimalAdd(a, b) == ContextRound(a + b)

TotalGrowth_NotUpdated(total_growth, monthly_growth) == total_growth

(* total_growth += monthly_growth *)
TotalGrowth(total_growth, monthly_growth) ==
    DecimalAdd(total_growth, monthly_growth)

(* the loop `for month in range(1, time * 12 + 1)`; steps keeps, for each    *)
(* month, the balance before, the growth, the balance after and the two     *)
(* totals; range(1, last + 1) is used up once `last` steps are kept         *)
RECURSIVE GrowthLoop(_, _, _, _, _)
GrowthLoop(acc, month, last, monthly_rate, monthly_contribution) ==
    IF Len(acc.steps) >= last THEN acc
    ELSE LET monthly_growth == MonthlyGrowth(acc.current_value, monthly_rate,
                                            monthly_contribution)
             current_value == DecimalAdd(acc.current_value,
                                         DecimalAdd(monthly_growth,
                                                    monthly_contribution))
             total_investment == DecimalAdd(acc.total_investment,
                                            monthly_contribution)
             total_growth == TotalGrowth(acc.total_growth, monthly_growth)
             snapshot == [year |-> month \div 12,
                          value |-> Quantize(current_value),
                          investment |-> Quantize(total_investment),
                          growth |-> Quantize(total_growth)]
         IN  GrowthLoop(
                 [current_value |-> current_value,
                  total_investment |-> total_investment,
                  total_growth |-> total_growth,
                  results |-> IF month % 12 = 0
                              THEN Append(acc.results, snapshot)
                              ELSE acc.results,
                  steps |-> Append(acc.steps,
                                   [before |-> acc.current_value,
                                    growth |-> monthly_growth,
                                    after |-> current_value,
                                    total_investment |-> total_investment,
                                    total_growth |-> total_growth])],
                 month + 1, last, monthly_rate, monthly_contribution)

(* initial_investment and monthly_contribution in 1/Scale, rate in 1/Scale  *)
calculate_investment_growth(initial_investment, monthly_contribution, rate, time) ==
    LET monthly_rate == RoundHalfEven(rate, 12)
        end == GrowthLoop([current_value |-> initial_investment,
                           total_investment |-> initial_investment,
                           total_growth |-> 0,
                           results |-> <<>>, steps |-> <<>>],
                          1, time * 12, monthly_rate, monthly_contribution)
    IN  [raises |-> FALSE,
         monthly_rate |-> monthly_rate,
         final_value |-> Quantize(end.current_value),
         total_investment |-> Quantize(end.total_investment),
         total_growth |-> Quantize(end.total_growth),
         results |-> end.results,
         steps |-> end.steps]

Principals == {0, 1, 100, 1000, 2500}
AnnualRates == {0, 6 * (Scale \div 100), 8 * (Scale \div 100), 12 * (Scale \div 100)}
InitialInvestments == {0, 100 * Scale}
Contributions == {0, 10 * Scale}

CallLoanPayment ==
    /\ call = NoCall
    /\ Unchanged_database
    /\ \E principal \in Principals, rate \in AnnualRates, time \in 0..MaxTerm :
          call' = [fn |-> "calculate_loan_payment", principal |-> principal,
                   rate |-> rate, time |-> time,
                   out |-> calculate_loan_payment(principal, rate, time)]

CallInvestmentGrowth ==
    /\ call = NoCall
    /\ Unchanged_database
    /\ \E initial \in InitialInvestments, contribution \in Contributions,
          rate \in AnnualRates, time \in 0..MaxYears :
          call' = [fn |-> "calculate_investment_growth",
                   initial_investment |-> initial,
                   monthly_contribution |-> contribution,
                   rate |-> rate, time |-> time,
                   out |-> calculate_investment_growth(initial, contribution,
                                                       rate, time)]

NextCalculator == CallLoanPayment \/ CallInvestmentGrowth

SpecCalculator == Init /\ [][NextCalculator]_vars

(* C18: calculate_loan_payment(principal, 0, months) with months > 0        *)
(* returns principal / months itself (the quotient as Decimal rounds it,    *)
(* not a value cut to two places) and does not evaluate the amortization    *)
(* quotient.                                                                *)
C18_ZeroRateLoanPayment ==
    (call.fn = "calculate_loan_payment" /\ call.rate = 0 /\ call.time > 0) =>
        /\ ~call.out.raises
        /\ ~call.out.quotient_evaluated
        /\ 2 * Abs(call.out.value * call.time - call.principal * Scale) <= call.time

(* 100 over 3 months at rate 0: 33.3333, not 33.33 *)
C18_Witness ==
    /\ call.fn = "calculate_loan_payment"
    /\ call.rate = 0
    /\ call.principal = 100
    /\ call.time = 3
    /\ call.out.value = (100 * Scale) \div 3

(* C19: calculate_investment_growth runs 12 * years monthly steps; each     *)
(* step's growth is monthly_rate times the balance before that month's      *)
(* contribution is added; one snapshot follows each 12th month, so the      *)
(* snapshots are numbered 1..years in order and the last one's value is     *)
(* final_value.                                                             *)
C19_InvestmentGrowthSteps ==
    call.fn = "calculate_investment_growth" =>
        LET out == call.out
            steps == out.steps
            years == call.time
        IN  /\ Len(steps) = 12 * years
            /\ \A m \in DOMAIN steps :
                  /\ steps[m].before = IF m = 1 THEN call.initial_investment
                                       ELSE steps[m - 1].after
                  /\ 2 * Abs(steps[m].growth * Scale
                             - steps[m].before * out.monthly_rate) <= Scale
                  /\ steps[m].after =
                         DecimalAdd(steps[m].before,
                                    DecimalAdd(steps[m].growth,
                                               call.monthly_contribution))
            /\ Len(out.results) = years
            /\ \A k \in DOMAIN out.results :
                  /\ out.results[k].year = k
                  /\ out.results[k].value = Quantize(steps[12 * k].after)
            /\ years >= 1 => out.results[years].value = out.final_value

(* two years with growth and contributions: two snapshots, the second equal *)
(* to the final value and above the first                                   *)
C19_Witness ==
    /\ call.fn = "calculate_investment_growth"
    /\ call.time = 2
    /\ call.rate > 0
    /\ call.monthly_contribution > 0
    /\ Len(call.out.results) = 2
    /\ call.out.results[2].value = call.out.final_value
    /\ call.out.results[1].value < call.out.results[2].value

(* the unit of the last digit the context keeps of n *)
RECURSIVE UlpAt(_, _)
UlpAt(n, unit) ==
    IF n < unit * 10 ^ Precision THEN unit ELSE UlpAt(n, unit * 10)

Ulp(n) == UlpAt(Abs(n), 1)

(* C30: at the end of every monthly step of calculate_investment_growth,    *)
(* current_value equals total_investment plus total_growth (before the      *)
(* quantize), and total_investment equals initial_investment plus           *)
(* monthly_contribution times the number of months elapsed.                 *)
C30_ValueIsInvestmentPlusGrowth ==
    call.fn = "calculate_investment_growth" =>
        \A m \in DOMAIN call.out.steps :
            LET step == call.out.steps[m]
            IN  /\ step.after = DecimalAdd(step.total_investment, step.total_growth)
                /\ step.total_investment =
                       call.initial_investment + call.monthly_contribution * m

(* C30, as the code has it: total_investment is initial_investment plus     *)
(* monthly_contribution times the months elapsed, and current_value differs *)
(* from total_investment plus total_growth by at most the rounding of the   *)
(* Decimal additions, one and a half units of current_value's last kept     *)
(* digit per month elapsed; they are equal while no addition is rounded.    *)
C30_ValueWithinRoundingOfTotals ==
    call.fn = "calculate_investment_growth" =>
        \A m \in DOMAIN call.out.steps :
            LET step == call.out.steps[m]
                total == step.total_investment + step.total_growth
            IN  /\ step.total_investment =
                       call.initial_investment + call.monthly_contribution * m
                /\ 2 * Abs(step.after - total) <= 3 * m * Ulp(step.after)
                /\ step.after < 10 ^ Precision => step.after = total

(* a year of growth with contributions in which an addition was rounded:    *)
(* the value and the sum of the totals differ in the last kept digit        *)
C30_Witness ==
    /\ call.fn = "calculate_investment_growth"
    /\ call.time >= 1
    /\ call.rate > 0
    /\ call.monthly_contribution > 0
    /\ \E m \in DOMAIN call.out.steps :
          LET step == call.out.steps[m]
          IN  /\ step.total_growth > 0
              /\ step.after # step.total_investment + step.total_growth

----------------------------------------------------------------------------
(* Goal deposits: add_money_view with the request and what it found and     *)
(* left in the rows recorded in call                                        *)

MaxDepositGoals == 2

DepositAmounts == {-5, 10, 30}
DepositGoalIds == 1..(MaxDepositGoals + 1)

(* current_amount of the goal with this id, None when there is no such row  *)
CurrentAmountOf(goals, goal_id) ==
    IF \E g \in goals : g.id = goal_id
    THEN (CHOOSE g \in goals : g.id = goal_id).current_amount
    ELSE None

DepositAddIncome ==
    /\ NextId(transactions) <= MaxTx
    /\ \E new_name \in {"maas"}, amount \in Amounts :
          add_income_view("u1", None, new_name, amount, today)

DepositAddSavingGoal ==
    /\ NextId(saving_goals) <= MaxDepositGoals
    /\ \E u \in Users : add_saving_goal_view(u, 100)

DepositAddMoney ==
    \E goal_id \in DepositGoalIds, numeric \in BOOLEAN, amount \in DepositAmounts :
        /\ add_money_rows("u1", goal_id, numeric, amount)
        /\ call' = [fn |-> "add_money_view", user |-> "u1",
                    goal_id |-> goal_id, numeric |-> numeric, amount |-> amount,
                    owned |-> \E g \in saving_goals :
                                  g.id = goal_id /\ g.user = "u1",
                    total_before |-> total_amount["u1"],
                    total_after |-> total_amount'["u1"],
                    goals_before |-> saving_goals,
                    goals_after |-> saving_goals']
        /\ UNCHANGED <<today, notify_count, requests, memory_cache, password, reset_tokens>>

NextDeposit ==
    \/ DepositAddIncome
    \/ DepositAddSavingGoal
    \/ DepositAddMoney

SpecDeposit == Init /\ [][NextDeposit]_vars

(* the request is one the deposit is promised for *)
DepositAccepted ==
    /\ call.numeric
    /\ call.amount > 0
    /\ call.amount <= call.total_before
    /\ call.owned

(* what a deposit request does to the goal and to the balance *)
DepositAsStated ==
    call.fn = "add_money_view" =>
        IF DepositAccepted
        THEN /\ CurrentAmountOf(call.goals_after, call.goal_id)
                    = CurrentAmountOf(call.goals_before, call.goal_id) + call.amount
             /\ call.total_after = call.total_before - call.amount
        ELSE /\ call.goals_after = call.goals_before
             /\ call.total_after = call.total_before

(* a step that changes the current_amount of a goal is a deposit request of *)
(* the goal's owner on that goal                                            *)
CurrentAmountChangedByDepositOnly ==
    \A g \in saving_goals :
        CurrentAmountOf(saving_goals', g.id) # g.current_amount =>
            \E numeric \in BOOLEAN, amount \in DepositAmounts :
                add_money_rows(g.user, g.id, numeric, amount)

(* C20: a deposit of a, 0 < a <= balance, on an own saving goal raises the  *)
(* goal's current_amount by a and lowers the user's total_amount by a; a    *)
(* request with a non-numeric amount, a <= 0, a above the balance or a goal *)
(* of another user changes neither; nothing else changes current_amount.    *)
C20_GoalDeposit ==
    /\ []DepositAsStated
    /\ [][CurrentAmountChangedByDepositOnly]_vars

(* the rejections alone: such a request leaves both values as they were     *)
RejectedDepositChangesNothing ==
    (call.fn = "add_money_view" /\ ~DepositAccepted) =>
        /\ call.goals_after = call.goals_before
        /\ call.total_after = call.total_before

(* no step changes the current_amount of an existing goal *)
CurrentAmountNeverChanges ==
    [][\A g \in saving_goals : CurrentAmountOf(saving_goals', g.id) = g.current_amount]_vars

----------------------------------------------------------------------------
(* Partial failure: one request at a time, and a request may end between    *)
(* transaction.save() / transaction.delete() and request.user.save(). The  *)
(* views open no transaction.atomic block, so the first write stays stored. *)

(* an exception, or the end of the process, before request.user.save() *)
request_fail(r) ==
    /\ r.pc = "written"
    /\ requests' = Moved(r, "failed")
    /\ UNCHANGED <<call, memory_cache, password, reset_tokens>>
    /\ UNCHANGED <<today, total_amount, categories, transactions, saving_goals,
                   purchase_goals, spending_limits, notify_count>>

(* one request at a time: the next begins when the last has ended *)
NextFail ==
    \/ /\ Cardinality(requests) < MaxRequests
       /\ \A r \in requests : r.pc \in {"done", "failed"}
       /\ \E in \in RaceInputs : request_begin("u1", in[1], in[2], in[3])
    \/ \E r \in requests : request_write(r)
    \/ \E r \in requests : request_save(r)
    \/ \E r \in requests : request_fail(r)

SpecFail == InitRace /\ [][NextFail]_vars

(* C21: a create, edit or delete request that fails between its two writes  *)
(* leaves no state with the ledger change stored and the balance change not *)
(* (or the reverse): once such a request has ended, total_amount matches    *)
(* the ledger.                                                              *)
C21_WriteAndBalanceAtomic ==
    (/\ \E r \in requests : r.pc = "failed"
     /\ \A r \in requests : r.pc \in {"done", "failed"})
        => C1_BalanceMatchesLedger

(* without a failure the requests, taken one at a time, keep the two in step *)
SequentialRequestsKeepBalance ==
    (\A r \in requests : r.pc = "done") => C1_BalanceMatchesLedger

----------------------------------------------------------------------------
(* The market page: borsa_view. A quote is its asset code, its type and the *)
(* step that produced it; prices are left out, only the tests on them are   *)
(* kept (a rate or price above zero).                                       *)

(* TUM_VARLIKLAR in the order of the dict: code and tip *)
TUM_VARLIKLAR ==
    [i \in 1..28 |->
        [kod |-> <<"USD", "EUR", "GBP", "JPY", "CHF", "CAD", "AUD", "CNY", "RUB",
                   "SAR", "KWD", "AED", "PLN", "KRW", "MXN", "NOK", "SEK", "DKK",
                   "TRY", "XAU", "XAU_QUARTER", "XAU_HALF", "XAU_FULL",
                   "XAU_REPUBLIC", "XAU_RESAT", "XAG", "XPT", "XPD">>[i],
         tip |-> "doviz"]]
    \o
    [i \in 1..25 |->
        [kod |-> <<"BTC", "ETH", "USDT", "BNB", "SOL", "XRP", "ADA", "AVAX",
                   "DOGE", "TRX", "DOT", "MATIC", "LTC", "SHIB", "DAI", "UNI",
                   "LINK", "ATOM", "XMR", "FIL", "NEAR", "APE", "SAND", "ALGO",
                   "AXS">>[i],
         tip |-> "kripto"]]

(* kod in TUM_VARLIKLAR and TUM_VARLIKLAR[kod]["tip"] == tip *)
IsAsset(kod, tip) ==
    \E i \in DOMAIN TUM_VARLIKLAR :
        TUM_VARLIKLAR[i].kod = kod /\ TUM_VARLIKLAR[i].tip = tip

Metals == {"XAU", "XAU_QUARTER", "XAU_HALF", "XAU_FULL", "XAU_REPUBLIC",
           "XAU_RESAT", "XAG", "XPT", "XPD"}

Quote(kod, tip, kaynak) == [kod |-> kod, tip |-> tip, kaynak |-> kaynak]

varsayilan_veriler ==
    [i \in 1..21 |->
        Quote(<<"USD", "EUR", "GBP", "JPY", "CHF", "CAD", "AUD", "RUB", "CNY",
                "SAR", "KWD", "AED", "XAU", "XAU_QUARTER", "XAU_HALF",
                "XAU_FULL", "XAU_REPUBLIC", "XAU_RESAT", "XAG", "XPT",
                "XPD">>[i], "doviz", "varsayilan")]

varsayilan_kriptolar ==
    [i \in 1..25 |-> Quote(TUM_VARLIKLAR[28 + i].kod, "kripto", "varsayilan")]

crypto_map ==
    ("bitcoin" :> "BTC") @@ ("ethereum" :> "ETH") @@ ("tether" :> "USDT")
    @@ ("binancecoin" :> "BNB") @@ ("solana" :> "SOL") @@ ("ripple" :> "XRP")
    @@ ("cardano" :> "ADA") @@ ("avalanche-2" :> "AVAX") @@ ("dogecoin" :> "DOGE")
    @@ ("tron" :> "TRX") @@ ("polkadot" :> "DOT") @@ ("matic-network" :> "MATIC")
    @@ ("litecoin" :> "LTC") @@ ("shiba-inu" :> "SHIB") @@ ("dai" :> "DAI")
    @@ ("uniswap" :> "UNI") @@ ("chainlink" :> "LINK") @@ ("cosmos" :> "ATOM")
    @@ ("monero" :> "XMR") @@ ("filecoin" :> "FIL") @@ ("near" :> "NEAR")
    @@ ("apecoin" :> "APE") @@ ("the-sandbox" :> "SAND")
    @@ ("algorand" :> "ALGO") @@ ("axie-infinity" :> "AXS")

(* len([v for v in borsa_verileri if v["tip"] == tip]) *)
CountTip(veriler, tip) == Len(SelectSeq(veriler, LAMBDA v : v.tip = tip))

AlreadyCollected_Never(veriler, kod) == FALSE

(* any(v["kod"] == kod for v in borsa_verileri) *)
AlreadyCollected(veriler, kod) == \E i \in DOMAIN veriler : veriler[i].kod = kod

(* 1. exchangerate-api: rates is the set of codes with a rate above zero.   *)
(* USD first, then the other currencies of TUM_VARLIKLAR that have a rate.  *)
ExchangeRateStep(response) ==
    IF response.kind # "ok" \/ "TRY" \notin response.rates
    THEN <<>>
    ELSE <<Quote("USD", "doviz", "exchangerate")>> \o
         [i \in 1..Len(SelectSeq(TUM_VARLIKLAR, LAMBDA a :
                          /\ a.tip = "doviz" /\ a.kod # "USD"
                          /\ a.kod \notin Metals /\ a.kod \in response.rates)) |->
             Quote(SelectSeq(TUM_VARLIKLAR, LAMBDA a :
                          /\ a.tip = "doviz" /\ a.kod # "USD"
                          /\ a.kod \notin Metals /\ a.kod \in response.rates)[i].kod,
                   "doviz", "exchangerate")]

(* gold and silver computed from the collected USD quote *)
GoldStep(veriler) ==
    IF \E i \in DOMAIN veriler : veriler[i].kod = "USD"
    THEN veriler \o
         [i \in 1..7 |->
             Quote(<<"XAU", "XAU_QUARTER", "XAU_HALF", "XAU_FULL", "XAU_REPUBLIC",
                     "XAU_RESAT", "XAG">>[i], "doviz", "hesap")]
    ELSE veriler

(* 2. Coingecko: ids are the keys of the answer, in its order *)
RECURSIVE CoingeckoLoop(_, _)
CoingeckoLoop(ids, veriler) ==
    IF ids = <<>> THEN veriler
    ELSE LET id == Head(ids)
         IN  CoingeckoLoop(Tail(ids),
                 IF id \in DOMAIN crypto_map /\ IsAsset(crypto_map[id], "kripto")
                 THEN Append(veriler, Quote(crypto_map[id], "kripto", "coingecko"))
                 ELSE veriler)

(* 3. Binance: a symbol is its base and its quote asset; usdt_try tells     *)
(* whether the answer has USDTTRY with a lastPrice above zero.              *)
RECURSIVE BinanceLoop(_, _)
BinanceLoop(items, veriler) ==
    IF items = <<>> THEN veriler
    ELSE LET item == Head(items)
         IN  BinanceLoop(Tail(items),
                 IF /\ item.quote = "USDT"
                    /\ IsAsset(item.base, "kripto")
                    /\ ~AlreadyCollected(veriler, item.base)
                 THEN Append(veriler, Quote(item.base, "kripto", "binance"))
                 ELSE veriler)

(* 4. CollectAPI: the codes of result, in its order *)
RECURSIVE CollectLoop(_, _)
CollectLoop(results, veriler) ==
    IF results = <<>> THEN veriler
    ELSE LET kod == Head(results)
         IN  CollectLoop(Tail(results),
                 IF IsAsset(kod, "doviz") /\ ~AlreadyCollected(veriler, kod)
                 THEN Append(veriler, Quote(kod, "doviz", "collectapi"))
                 ELSE veriler)

NeedsDefault_Inverted(kodlar, kod) == kod \in kodlar

(* if veri['kod'] not in doviz_kodlari / kripto_kodlari *)
NeedsDefault(kodlar, kod) == kod \notin kodlar

(* the sort (currencies first) and the merge of the static defaults; the    *)
(* two code lists are taken before anything is appended                     *)
DefaultMerge(veriler) ==
    LET sorted == SelectSeq(veriler, LAMBDA v : v.tip = "doviz")
                  \o SelectSeq(veriler, LAMBDA v : v.tip # "doviz")
        doviz_kodlari == {sorted[i].kod : i \in {j \in DOMAIN sorted :
                                                   sorted[j].tip = "doviz"}}
        kripto_kodlari == {sorted[i].kod : i \in {j \in DOMAIN sorted :
                                                    sorted[j].tip = "kripto"}}
    IN  sorted
        \o SelectSeq(varsayilan_veriler,
                     LAMBDA v : NeedsDefault(doviz_kodlari, v.kod))
        \o SelectSeq(varsayilan_kriptolar,
                     LAMBDA v : NeedsDefault(kripto_kodlari, v.kod))
        \o SelectSeq([i \in 1..25 |->
                         Quote(TUM_VARLIKLAR[28 + i].kod, "kripto", "hesap")],
                     LAMBDA v : /\ v.kod \notin kripto_kodlari
                                /\ \A i \in DOMAIN varsayilan_kriptolar :
                                       varsayilan_kriptolar[i].kod # v.kod)

(* The page view: sayfa_numeric tells whether int(request.GET['sayfa'])     *)
(* succeeds; it comes before anything else and is not caught. calls lists   *)
(* the providers in the order they were asked.                              *)
borsa_view(sayfa_numeric, doviz, crypto, binance, collect) ==
    IF ~sayfa_numeric
    THEN [raised |-> TRUE, calls |-> <<>>, after_exchange |-> <<>>,
          after_coingecko |-> <<>>, after_binance |-> <<>>,
          after_collect |-> <<>>, data |-> <<>>]
    ELSE LET after_exchange == GoldStep(ExchangeRateStep(doviz))
             after_coingecko ==
                 IF crypto.kind = "ok"
                 THEN CoingeckoLoop(crypto.ids, after_exchange)
                 ELSE after_exchange
             ask_binance == CountTip(after_coingecko, "kripto") < 5
             after_binance ==
                 IF ask_binance /\ binance.kind = "ok" /\ binance.usdt_try
                 THEN BinanceLoop(binance.items, after_coingecko)
                 ELSE after_coingecko
             ask_collect == CountTip(after_binance, "doviz") < 5
             after_collect ==
                 IF ask_collect /\ collect.kind = "ok"
                 THEN CollectLoop(collect.results, after_binance)
                 ELSE after_binance
         IN  [raised |-> FALSE,
              calls |-> <<"exchangerate", "coingecko">>
                        \o (IF ask_binance THEN <<"binance">> ELSE <<>>)
                        \o (IF ask_collect THEN <<"collectapi">> ELSE <<>>),
              after_exchange |-> after_exchange,
              after_coingecko |-> after_coingecko,
              after_binance |-> after_binance,
              after_collect |-> after_collect,
              data |-> DefaultMerge(after_collect)]

(* What a provider may answer: no answer (exception or timeout), a status   *)
(* other than 200, or 200 with a body                                       *)
Failure == {[kind |-> "error"], [kind |-> "status"]}

DovizResponses ==
    Failure \cup {[kind |-> "ok", rates |-> {"USD", "EUR"}],
                  [kind |-> "ok", rates |-> {"USD", "TRY", "EUR", "PLN"}]}

CryptoResponses ==
    Failure \cup {[kind |-> "ok", ids |-> <<"bitcoin", "pepe", "ethereum">>],
                  [kind |-> "ok", ids |-> <<"bitcoin", "ethereum", "tether",
                                            "solana", "ripple">>]}

BinanceResponses ==
    Failure \cup {[kind |-> "ok", usdt_try |-> FALSE,
                   items |-> <<[base |-> "SOL", quote |-> "USDT"]>>],
                  [kind |-> "ok", usdt_try |-> TRUE,
                   items |-> <<[base |-> "USDT", quote |-> "TRY"],
                               [base |-> "BTC", quote |-> "USDT"],
                               [base |-> "SOL", quote |-> "USDT"],
                               [base |-> "SOL", quote |-> "USDT"],
                               [base |-> "ETH", quote |-> "BTC"],
                               [base |-> "EUR", quote |-> "USDT"]>>]}

CollectResponses ==
    Failure \cup {[kind |-> "ok", results |-> <<>>],
                  [kind |-> "ok", results |-> <<"USD", "EUR", "USD", "BTC", "PLN">>]}

NextMarket ==
    /\ call = NoCall
    /\ \E sayfa_numeric \in BOOLEAN, doviz \in DovizResponses,
          crypto \in CryptoResponses, binance \in BinanceResponses,
          collect \in CollectResponses :
          call' = [fn |-> "borsa_view", sayfa_numeric |-> sayfa_numeric,
                   doviz |-> doviz, crypto |-> crypto, binance |-> binance,
                   collect |-> collect,
                   out |-> borsa_view(sayfa_numeric, doviz, crypto, binance, collect)]
    /\ Unchanged_database
    /\ UNCHANGED <<today, notify_count, requests>>

SpecMarket == Init /\ [][NextMarket]_vars

(* how often a code occurs in a list of quotes *)
Occurrences(veriler, kod) == Len(SelectSeq(veriler, LAMBDA v : v.kod = kod))

(* C22: when every provider call of the page fails (no answer or a status   *)
(* other than 200) the view does not raise and the data holds every static  *)
(* default currency/metal quote and every static default crypto quote, each *)
(* asset code exactly once.                                                 *)
C22_AllProvidersFailGivesDefaults ==
    (/\ call.fn = "borsa_view"
     /\ Len(call.out.calls) = 4
     /\ {call.doviz, call.crypto, call.binance, call.collect} \subseteq Failure)
    => /\ ~call.out.raised
       /\ \A i \in DOMAIN varsayilan_veriler :
             \E j \in DOMAIN call.out.data :
                 call.out.data[j] = varsayilan_veriler[i]
       /\ \A i \in DOMAIN varsayilan_kriptolar :
             \E j \in DOMAIN call.out.data :
                 call.out.data[j] = varsayilan_kriptolar[i]
       /\ \A j \in DOMAIN call.out.data :
             Occurrences(call.out.data, call.out.data[j].kod) = 1

(* the four providers asked, one timing out and three answering 503, and    *)
(* the 46 defaults shown                                                    *)
C22_Witness ==
    /\ call.fn = "borsa_view"
    /\ call.out.calls = <<"exchangerate", "coingecko", "binance", "collectapi">>
    /\ call.doviz.kind = "error"
    /\ {call.crypto.kind, call.binance.kind, call.collect.kind} = {"status"}
    /\ Len(call.out.data) = 46

(* C26: Binance is asked only when fewer than 5 crypto quotes were collected *)
(* after the Coingecko step, CollectAPI only when fewer than 5 currency     *)
(* quotes were collected after the exchange-rate step, each provider at     *)
(* most once per page view, and a fallback never adds a quote for a code    *)
(* already collected.                                                       *)
C26_FallbackProviders ==
    call.fn = "borsa_view" =>
        LET out == call.out
            Asked(provider) == \E i \in DOMAIN out.calls : out.calls[i] = provider
            Rank == [exchangerate |-> 1, coingecko |-> 2, binance |-> 3,
                     collectapi |-> 4]
        IN  /\ Asked("binance") => CountTip(out.after_coingecko, "kripto") < 5
            /\ Asked("collectapi") => CountTip(out.after_exchange, "doviz") < 5
            /\ \A i, j \in DOMAIN out.calls : out.calls[i] = out.calls[j] => i = j
            /\ \A i, j \in DOMAIN out.calls :
                  i < j => Rank[out.calls[i]] < Rank[out.calls[j]]
            /\ \A j \in DOMAIN out.after_collect :
                  out.after_collect[j].kaynak \in {"binance", "collectapi"} =>
                      \A i \in 1..(j - 1) :
                          out.after_collect[i].kod # out.after_collect[j].kod

(* Binance asked after Coingecko gave two quotes: it adds SOL once and not  *)
(* BTC, which Coingecko had given                                           *)
C26_Witness ==
    /\ call.fn = "borsa_view"
    /\ \E i \in DOMAIN call.out.calls : call.out.calls[i] = "binance"
    /\ Occurrences(call.out.after_coingecko, "BTC") = 1
    /\ \E j \in DOMAIN call.out.after_binance :
          call.out.after_binance[j] = Quote("SOL", "kripto", "binance")
    /\ \E j \in DOMAIN call.out.after_collect :
          call.out.after_collect[j].kaynak = "collectapi"

----------------------------------------------------------------------------
(* Caching: simple_cache. memory_cache is the module's dict, one entry per  *)
(* key: the key, the stored result and its expiry_time. The statements of   *)
(* wrapper and clear_cache are modelled as written, clear_cache's           *)
(* `nonlocal _memory_cache` read as naming the module's dict.               *)

MaxAdvance == 3

RECURSIVE JoinArgs(_)
(* "".join(str(arg) for arg in args) *)
JoinArgs(args) == IF args = <<>> THEN "" ELSE Head(args) \o JoinArgs(Tail(args))

RECURSIVE JoinKwargs(_)
(* "".join(f"{k}:{v}" for k, v in sorted(kwargs.items())); kwargs is given  *)
(* as its sorted items                                                      *)
JoinKwargs(items) ==
    IF items = <<>> THEN ""
    ELSE Head(items)[1] \o ":" \o Head(items)[2] \o JoinKwargs(Tail(items))

(* hashlib.md5(text.encode()).hexdigest(): a digest is written as the text  *)
(* it was computed from, two digests being equal exactly when the texts are *)
md5(text) == [md5 |-> text]

(* the key of a call: the function's name and the arguments, joined with no *)
(* separator, hashed                                                        *)
CacheKey(name, args, kwargs) == md5(name \o JoinArgs(args) \o JoinKwargs(kwargs))

(* key.startswith(md5(func.__name__)[:8]), with key itself a whole digest:  *)
(* the first 8 characters of two digests agree when the digests do          *)
StartsWithPrefixOf(key, name) == key = md5(name)

Stale_Never(entry, current_time) == FALSE

(* if _memory_cache[key][1] < current_time: del _memory_cache[key] *)
Stale(entry, current_time) == entry.expiry_time < current_time

(* One call of the wrapped function at current_time; fresh is what func     *)
(* returns if it is called now.                                             *)
wrapper(func, args, kwargs, current_time, fresh) ==
    LET cache_key == CacheKey(func.name, args, kwargs)
        hits == {e \in memory_cache :
                    e.key = cache_key /\ e.expiry_time > current_time}
        stored == {e \in memory_cache : e.key # cache_key} \cup
                  {[key |-> cache_key, result |-> fresh,
                    expiry_time |-> current_time + func.timeout]}
    IN  IF hits # {}
        THEN [invoked |-> FALSE, result |-> (CHOOSE e \in hits : TRUE).result,
              cache |-> memory_cache]
        ELSE [invoked |-> TRUE, result |-> fresh,
              cache |-> {e \in stored : ~Stale(e, current_time)}]

(* wrapper.clear_cache() *)
clear_cache(func) == {e \in memory_cache : ~StartsWithPrefixOf(e.key, func.name)}

(* functions wrapped in api_service.py, with their timeouts *)
WrappedFunctions ==
    {[name |-> "get_latest_rates", timeout |-> 3600],
     [name |-> "get_current_weather", timeout |-> 1800]}

Arguments ==
    {[args |-> <<>>, kwargs |-> <<>>],
     [args |-> <<"USD">>, kwargs |-> <<>>],
     [args |-> <<"US", "D">>, kwargs |-> <<>>],
     [args |-> <<>>, kwargs |-> <<<<"base_currency", "USD">>>>]}

TimeSteps == {0, 1800, 3600}

(* time.time() at the last call *)
LastTime == IF call = NoCall THEN 0 ELSE call.time

CacheCall ==
    \E func \in WrappedFunctions, a \in Arguments, step \in TimeSteps :
        LET current_time == LastTime + step
            (* the wrapped function answers with the data as of its call *)
            out == wrapper(func, a.args, a.kwargs, current_time,
                           [at |-> current_time])
        IN  /\ current_time <= MaxAdvance * 1800
            /\ memory_cache' = out.cache
            /\ call' = [fn |-> "simple_cache", func |-> func, args |-> a.args,
                        kwargs |-> a.kwargs, time |-> current_time,
                        invoked |-> out.invoked, result |-> out.result]
            /\ Unchanged_tables
            /\ UNCHANGED <<today, notify_count, requests, password, reset_tokens>>

CacheClear ==
    \E func \in WrappedFunctions :
        /\ memory_cache' = clear_cache(func)
        /\ call' = [fn |-> "clear_cache", func |-> func, time |-> LastTime]
        /\ Unchanged_tables
        /\ UNCHANGED <<today, notify_count, requests, password, reset_tokens>>

NextCache == CacheCall \/ CacheClear

SpecCache == Init /\ [][NextCache]_vars

C24_ClearCacheRemovesEntries ==
    /\ [](call.fn = "clear_cache" =>
            \A e \in memory_cache, a \in Arguments :
                e.key # CacheKey(call.func.name, a.args, a.kwargs))
    /\ [][(/\ call.fn = "clear_cache"
           /\ call'.fn = "simple_cache"
           /\ call'.func = call.func) => call'.invoked]_vars

(* what clear_cache does remove: the entry of the call without arguments *)
ClearCacheRemovesEntryWithoutArguments ==
    call.fn = "clear_cache" =>
        \A e \in memory_cache : e.key # CacheKey(call.func.name, <<>>, <<>>)

----------------------------------------------------------------------------
(* Pagination: paginate_items over Django's Paginator                       *)

MaxItems == 10
MaxWindow == 6

(* page_number is what the caller passed: a number ("int", also a string of *)
(* digits) or anything else ("text"). Paginator(items, items_per_page) has  *)
(* at least one page; PageNotAnInteger gives page 1, EmptyPage (below 1 or  *)
(* above num_pages) the last page. page_range is the set of range(...).     *)
paginate_items(count, page_number, items_per_page, max_pages) ==
    LET num_pages == IF count = 0 THEN 1
                     ELSE (count + items_per_page - 1) \div items_per_page
        current_page ==
            IF page_number.kind # "int" THEN 1
            ELSE IF page_number.n < 1 \/ page_number.n > num_pages THEN num_pages
            ELSE page_number.n
        page_range ==
            IF num_pages <= max_pages
            THEN 1..num_pages
            ELSE IF current_page <= 3
                 THEN 1..max_pages
                 ELSE IF current_page >= num_pages - 2
                      THEN (num_pages - max_pages + 1)..num_pages
                      ELSE (current_page - 2)..(current_page + 2)
    IN  [num_pages |-> num_pages, current_page |-> current_page,
         page_range |-> page_range, is_paginated |-> num_pages > 1]

NextPaginate ==
    /\ call = NoCall
    /\ \E count \in 0..MaxItems, items_per_page \in {1, 3},
          page_number \in {[kind |-> "text"]}
                          \cup {[kind |-> "int", n |-> n] : n \in -1..(MaxItems + 1)},
          max_pages \in 1..MaxWindow :
          call' = [fn |-> "paginate_items", count |-> count,
                   page_number |-> page_number,
                   items_per_page |-> items_per_page, max_pages |-> max_pages,
                   out |-> paginate_items(count, page_number, items_per_page,
                                          max_pages)]
    /\ Unchanged_database
    /\ UNCHANGED <<today, notify_count, requests>>

SpecPaginate == Init /\ [][NextPaginate]_vars

(* C25: for every item count, items_per_page, page_number and               *)
(* max_pages >= 1 the page_range of paginate_items has at most max_pages    *)
(* page numbers, all within 1..num_pages, and contains the current page.    *)
C25_PageRangeWithinWindow ==
    (call.fn = "paginate_items" /\ call.max_pages >= 1) =>
        /\ Cardinality(call.out.page_range) <= call.max_pages
        /\ call.out.page_range \subseteq 1..call.out.num_pages
        /\ call.out.current_page \in call.out.page_range

(* with the default max_pages = 5 the three properties hold *)
PageRangeWithDefaultWindow ==
    (call.fn = "paginate_items" /\ call.max_pages = 5) =>
        /\ Cardinality(call.out.page_range) <= 5
        /\ call.out.page_range \subseteq 1..call.out.num_pages
        /\ call.out.current_page \in call.out.page_range

(* for every max_pages the page numbers shown exist *)
PageRangeWithinPages ==
    call.fn = "paginate_items" =>
        call.out.page_range \subseteq 1..call.out.num_pages

----------------------------------------------------------------------------
(* Password reset: password_reset_request and password_reset_confirm. A     *)
(* stored password is the raw password and the salt set_password drew for   *)
(* its hash, so every set_password changes the field.                       *)

MaxTokens == 2

UnusedTokens_IgnoringIsUsed(token) == {t \in reset_tokens : t.token = token}

(* PasswordResetToken.objects.get(token=token, is_used=False) *)
UnusedTokens(token) == {t \in reset_tokens : t.token = token /\ ~t.is_used}

(* registered: User.objects.get(email=email) finds the user. token is a     *)
(* fresh uuid4, written as the number of the row.                           *)
password_reset_request(u, registered) ==
    /\ reset_tokens' =
           IF registered
           THEN reset_tokens \cup
                    {[token |-> Cardinality(reset_tokens) + 1, user |-> u,
                      is_used |-> FALSE]}
           ELSE reset_tokens
    /\ call' = [fn |-> "password_reset_request", user |-> u,
                registered |-> registered]
    /\ UNCHANGED <<password, memory_cache>>
    /\ Unchanged_tables
    /\ UNCHANGED <<today, notify_count, requests>>

(* form_valid: SetNewPasswordForm.is_valid(), both fields given and equal *)
password_reset_confirm(token, method, form_valid, password1) ==
    /\ LET found == UnusedTokens(token)
           reset_token == CHOOSE t \in found : TRUE
           changes == found # {} /\ method = "POST" /\ form_valid
       IN  /\ password' =
                  IF changes
                  THEN [password EXCEPT ![reset_token.user] =
                           [raw |-> password1, salt |-> @.salt + 1]]
                  ELSE password
           /\ reset_tokens' =
                  IF changes
                  THEN (reset_tokens \ {reset_token})
                       \cup {[reset_token EXCEPT !.is_used = TRUE]}
                  ELSE reset_tokens
           /\ call' = [fn |-> "password_reset_confirm", token |-> token,
                       method |-> method, form_valid |-> form_valid,
                       rejected |-> found = {}, changed |-> changes]
    /\ UNCHANGED memory_cache
    /\ Unchanged_tables
    /\ UNCHANGED <<today, notify_count, requests>>

ResetRequest ==
    /\ Cardinality(reset_tokens) < MaxTokens
    /\ \E u \in Users, registered \in BOOLEAN : password_reset_request(u, registered)

ResetConfirm ==
    \E token \in 1..(MaxTokens + 1), method \in {"GET", "POST"},
       form_valid \in BOOLEAN, password1 \in {"pw1", "pw2"} :
        password_reset_confirm(token, method, form_valid, password1)

NextReset == ResetRequest \/ ResetConfirm

SpecReset == Init /\ [][NextReset]_vars

(* C27: a token changes a password at most once: once a confirm request     *)
(* with token t has succeeded and set is_used, every later request with t   *)
(* is rejected and changes no password, and is_used never returns to false. *)
C27_TokenUsedAtMostOnce ==
    [][\A t \in reset_tokens :
          t.is_used =>
              /\ t \in reset_tokens'
              /\ (call'.fn = "password_reset_confirm" /\ call'.token = t.token)
                    => (call'.rejected /\ password' = password)]_vars

(* a used token presented again with a valid new password: rejected, the    *)
(* password set by its first use still stored                               *)
C27_Witness ==
    /\ call.fn = "password_reset_confirm"
    /\ call.method = "POST"
    /\ call.form_valid
    /\ call.rejected
    /\ \E t \in reset_tokens :
          /\ t.token = call.token
          /\ t.is_used
          /\ password[t.user].salt = 1

----------------------------------------------------------------------------
(* Two users: requests that name the other user's objects                   *)

IsolationIds == 1..3

InitIsolation ==
    /\ today = ReferenceDay
    /\ total_amount = [u \in Users |-> 10]
    /\ categories = CreateCategory(CreateCategory({}, "maas", "gelir"),
                                   "market", "gider")
    /\ transactions = {[id |-> 1, user |-> "u1", category |-> 1, amount |-> 10,
                        date |-> ReferenceDay],
                       [id |-> 2, user |-> "u2", category |-> 1, amount |-> 10,
                        date |-> ReferenceDay]}
    /\ saving_goals = {[id |-> 1, user |-> "u1", target_amount |-> 30,
                        current_amount |-> 0],
                       [id |-> 2, user |-> "u2", target_amount |-> 30,
                        current_amount |-> 0]}
    /\ purchase_goals = {}
    /\ spending_limits = {[id |-> 1, user |-> "u1", category |-> 2,
                           amount |-> 10, period |-> "monthly"],
                          [id |-> 2, user |-> "u2", category |-> 2,
                           amount |-> 10, period |-> "monthly"]}
    /\ notify_count = <<>>
    /\ requests = {}
    /\ memory_cache = {}
    /\ password = [u \in Users |-> [raw |-> "", salt |-> 0]]
    /\ reset_tokens = {}
    /\ call = NoCall

(* the user column of the row with this id, "nobody" when there is none *)
OwnerOf(table, id) ==
    IF \E row \in table : row.id = id
    THEN (CHOOSE row \in table : row.id = id).user
    ELSE "nobody"

StoredData ==
    [transactions |-> transactions, spending_limits |-> spending_limits,
     saving_goals |-> saving_goals, total_amount |-> total_amount]

Requested(fn, u, owner) ==
    /\ call' = [fn |-> fn, user |-> u, owner |-> owner,
                before |-> StoredData, after |-> StoredData']
    /\ UNCHANGED <<today, notify_count, requests, memory_cache, password,
                   reset_tokens>>

NextIsolation ==
    \/ \E u \in Users, id \in IsolationIds, choice \in CategoryChoices,
          amount \in Amounts :
          /\ edit_transaction_rows(u, id, choice, "", amount, today)
          /\ Requested("edit_transaction_view", u, OwnerOf(transactions, id))
    \/ \E u \in Users, id \in IsolationIds :
          /\ delete_transaction_rows(u, id)
          /\ Requested("delete_transaction_view", u, OwnerOf(transactions, id))
    \/ \E u \in Users, id \in IsolationIds, category \in {2},
          amount \in {20}, period \in {"weekly", "yearly"} :
          /\ edit_spending_limit_rows(u, id, category, amount, period)
          /\ Requested("edit_spending_limit_view", u,
                       OwnerOf(spending_limits, id))
    \/ \E u \in Users, id \in IsolationIds :
          /\ delete_spending_limit_rows(u, id)
          /\ Requested("delete_spending_limit_view", u,
                       OwnerOf(spending_limits, id))
    \/ \E u \in Users, id \in IsolationIds, numeric \in BOOLEAN,
          amount \in {10} :
          /\ add_money_rows(u, id, numeric, amount)
          /\ Requested("add_money_view", u, OwnerOf(saving_goals, id))

SpecIsolation == InitIsolation /\ [][NextIsolation]_vars

RowsOf(table, u) == {row \in table : row.user = u}

(* C28: an edit-transaction, delete-transaction, edit-limit, delete-limit   *)
(* or deposit request by user A that names an object owned by another user  *)
(* B is rejected (nothing stored is written) and leaves B's transactions,   *)
(* limits, saving goals and balance, and A's balance, as they were.         *)
C28_OtherUsersDataUnchanged ==
    (call.fn # "none" /\ call.owner \in Users \ {call.user}) =>
        LET A == call.user
            B == call.owner
        IN  /\ call.after = call.before
            /\ RowsOf(call.after.transactions, B)
                   = RowsOf(call.before.transactions, B)
            /\ RowsOf(call.after.spending_limits, B)
                   = RowsOf(call.before.spending_limits, B)
            /\ RowsOf(call.after.saving_goals, B)
                   = RowsOf(call.before.saving_goals, B)
            /\ call.after.total_amount[B] = call.before.total_amount[B]
            /\ call.after.total_amount[A] = call.before.total_amount[A]

(* u1 asked to delete the transaction of u2, which is still stored *)
C28_Witness ==
    /\ call.fn = "delete_transaction_view"
    /\ call.user = "u1"
    /\ call.owner = "u2"
    /\ \E t \in transactions : t.user = "u2"

(* every kind of request has named an object of the other user *)
IsolationNoForeignEdit ==
    ~(call.fn = "edit_transaction_view" /\ call.owner \in Users \ {call.user})
IsolationNoForeignLimitEdit ==
    ~(call.fn = "edit_spending_limit_view" /\ call.owner \in Users \ {call.user})
IsolationNoForeignLimitDelete ==
    ~(call.fn = "delete_spending_limit_view" /\ call.owner \in Users \ {call.user})
IsolationNoForeignDeposit ==
    ~(call.fn = "add_money_view" /\ call.owner \in Users \ {call.user}
      /\ call.before.total_amount[call.user] >= 10)

----------------------------------------------------------------------------
(* The totals of the current month on three pages                           *)

MonthDates == {Date(2024, 1, 31), Date(2024, 2, 1), ReferenceDay,
               Date(2024, 3, 1)}

(* dashboard_view: date__range=[start_of_month, end_of_month] *)
dashboard_month_totals(user) ==
    LET start_of_month == Date(today.year, today.month, 1)
        later == PlusDays(start_of_month, 32)
        end_of_month == MinusDays(Date(later.year, later.month, 1), 1)
        range == [start |-> start_of_month, end |-> end_of_month]
    IN  [income_this_month |->
             OrZero(AggregateSum(RowsOfType(user, "gelir", range))).value,
         expense_this_month |->
             OrZero(AggregateSum(RowsOfType(user, "gider", range))).value]

(* filter(category__type=type, date__gte=start_of_month) *)
RowsSince(user, type, start) ==
    {t \in transactions : /\ t.user = user
                          /\ CategoryType(t.category) = type
                          /\ ToOrdinal(t.date) >= ToOrdinal(start)}

income_expense_view(user) ==
    LET start_of_month == Date(today.year, today.month, 1)
    IN  [income_this_month |->
             OrZero(AggregateSum(RowsSince(user, "gelir", start_of_month))).value,
         expense_this_month |->
             OrZero(AggregateSum(RowsSince(user, "gider", start_of_month))).value]

MonthTotalsCall ==
    /\ Unchanged_database
    /\ \E user \in Users :
          call' = [fn |-> "month_totals", user |-> user,
                   income_expense |-> income_expense_view(user),
                   dashboard |-> dashboard_month_totals(user),
                   summary |-> get_summary_by_period(user, "monthly", today),
                   latest |-> IF transactions = {} THEN 0
                              ELSE SetMax({ToOrdinal(t.date) : t \in transactions})]

NextMonthTotals ==
    \/ /\ NextId(transactions) <= MaxTx
       /\ \E amount \in {10, 30}, date \in MonthDates :
             add_income_view("u1", None, "Maas", amount, date)
    \/ /\ NextId(transactions) <= MaxTx
       /\ \E amount \in {10, 30}, date \in MonthDates :
             add_expense_view("u1", None, "Market", amount, date)
    \/ NextDay
    \/ MonthTotalsCall

SpecMonthTotals == Init /\ [][NextMonthTotals]_vars

(* C29: the current-month income and expense totals of income_expense_view  *)
(* equal those of dashboard_view and those returned by                      *)
(* get_summary_by_period('monthly') for the same user, for every stored     *)
(* transaction set and current date.                                        *)
C29_MonthTotalsAgree ==
    call.fn = "month_totals" =>
        /\ call.income_expense.income_this_month
               = call.dashboard.income_this_month
        /\ call.income_expense.expense_this_month
               = call.dashboard.expense_this_month
        /\ call.income_expense.income_this_month = call.summary.income.value
        /\ call.income_expense.expense_this_month = call.summary.expense.value

(* dashboard_view and get_summary_by_period('monthly') always agree *)
DashboardAgreesWithSummary ==
    call.fn = "month_totals" =>
        /\ call.dashboard.income_this_month = call.summary.income.value
        /\ call.dashboard.expense_this_month = call.summary.expense.value

(* all three agree while no transaction is dated after the current month *)
MonthTotalsAgreeWithoutLaterDates ==
    (call.fn = "month_totals"
     /\ call.latest <= ToOrdinal(call.summary.end_date)) => C29_MonthTotalsAgree

====
